---- MODULE Spec2Model ----
(***************************************************************************)
(* Movie catalogue of express-movies: the duplicate detector, the actor    *)
(* resolver, the movie repository (create, createMany) and the import      *)
(* parser, as a state machine over the SQLite tables movies, actors and    *)
(* movie_actors.                                                           *)
(*                                                                         *)
(* Text.  A JavaScript string is a sequence of atoms.  An atom is a run of *)
(* characters that the code never looks inside: one letter, one blank, one *)
(* separator, a run of digits, a format word, a field name of the import   *)
(* file.  No atom is a concatenation of other atoms, so two strings are    *)
(* equal exactly when their atom sequences are equal.                      *)
(***************************************************************************)
EXTENDS Integers, Sequences, FiniteSets, TLC

VARIABLES movies, actors, movie_actors, movieSeq, actorSeq, last

vars == <<movies, actors, movie_actors, movieSeq, actorSeq, last>>

----------------------------------------------------------------------------
(* Bounds of the model *)

\* movie rows the store may hold
MaxMovies == 2
\* blocks of an import file
MaxBlocks == 2

----------------------------------------------------------------------------
(* Strings *)

Str(a) == <<a>>

\* String.prototype.toLowerCase, atom by atom; "YI" and "yi" stand for the
\* Ukrainian letter yi, capital (U+0407) and small (U+0457)
LowerAtom(a) ==
  CASE a = "A" -> "a"
    [] a = "M" -> "m"
    [] a = "I" -> "i"
    [] a = "DVD" -> "dvd"
    [] a = "VHS" -> "vhs"
    [] a = "Blu-Ray" -> "blu-ray"
    [] a = "Digital" -> "digital"
    [] a = "Title" -> "title"
    [] a = "TITLE" -> "title"
    [] a = "Release Year" -> "release year"
    [] a = "Format" -> "format"
    [] a = "Stars" -> "stars"
    [] a = "YI" -> "yi"
    [] OTHER -> a

toLowerCase(s) == [i \in 1..Len(s) |-> LowerAtom(s[i])]

IsSpace(a) == a = " "

RECURSIVE trimStart(_)
trimStart(s) ==
  IF s = <<>> THEN <<>>
  ELSE IF IsSpace(Head(s)) THEN trimStart(Tail(s)) ELSE s

RECURSIVE trimEnd(_)
trimEnd(s) ==
  IF s = <<>> THEN <<>>
  ELSE IF IsSpace(s[Len(s)]) THEN trimEnd(SubSeq(s, 1, Len(s) - 1)) ELSE s

\* String.prototype.trim
trim(s) == trimEnd(trimStart(s))

\* String.prototype.split(sep) for a one-atom separator: the pieces between
\* the separators, empty pieces included
RECURSIVE splitFrom(_, _, _)
splitFrom(s, sep, cur) ==
  IF s = <<>> THEN <<cur>>
  ELSE IF Head(s) = sep THEN <<cur>> \o splitFrom(Tail(s), sep, <<>>)
       ELSE splitFrom(Tail(s), sep, Append(cur, Head(s)))

split(s, sep) == splitFrom(s, sep, <<>>)

\* the atoms that are runs of decimal digits
Digits == {"0", "1894", "1895", "1999", "2000", "2036", "2037"}

IsDigits(a) == a \in Digits

\* the value of a run of digits
DigitsValue(a) ==
  CASE a = "0" -> 0
    [] a = "1894" -> 1894
    [] a = "1895" -> 1895
    [] a = "1999" -> 1999
    [] a = "2000" -> 2000
    [] a = "2036" -> 2036
    [] a = "2037" -> 2037

\* String(n) of an integer
toString(n) == Str(CHOOSE a \in Digits : DigitsValue(a) = n)

\* the number of characters of an atom; "x255" and "x256" are runs of that
\* many copies of one letter
AtomLen(a) ==
  CASE a = "x255" -> 255
    [] a = "x256" -> 256
    [] a \in Digits \ {"0"} -> 4
    [] a \in {"DVD", "VHS", "dvd", "vhs"} -> 3
    [] a \in {"Blu-Ray", "Digital"} -> 7
    [] OTHER -> 1

RECURSIVE length(_)
length(s) == IF s = <<>> THEN 0 ELSE AtomLen(Head(s)) + length(Tail(s))

\* a JavaScript number: NaN or an integer
NaN == [nan |-> TRUE, v |-> 0]
Num(n) == [nan |-> FALSE, v |-> n]

\* parseInt(s, 10): leading blanks skipped, then the longest run of digits
parseInt(s) ==
  LET t == trimStart(s)
  IN IF t # <<>> /\ IsDigits(Head(t)) THEN Num(DigitsValue(Head(t))) ELSE NaN

\* Number(s): the whole string, blanks around it ignored; "" is 0
Number(s) ==
  LET t == trim(s)
  IN IF t = <<>> THEN Num(0)
     ELSE IF Len(t) = 1 /\ IsDigits(t[1]) THEN Num(DigitsValue(t[1])) ELSE NaN

\* String.prototype.startsWith and String.prototype.slice(n)
startsWith(s, prefix) ==
  Len(s) >= Len(prefix) /\ SubSeq(s, 1, Len(prefix)) = prefix

slice(s, n) == SubSeq(s, n + 1, Len(s))

\* the value bound to a name once: Body applied to it
With(value, Body(_)) == Body(value)

\* the elements of a sequence
Range(s) == {s[i] : i \in 1..Len(s)}

\* a list that keeps its repeats
uniqueSeq_keepRepeats(s) == s

\* [...new Set(seq)]: the first occurrence of every element, in order
RECURSIVE uniqueSeq(_)
uniqueSeq(s) ==
  IF s = <<>> THEN <<>>
  ELSE LET front == uniqueSeq(SubSeq(s, 1, Len(s) - 1))
       IN IF s[Len(s)] \in Range(front) THEN front ELSE Append(front, s[Len(s)])

----------------------------------------------------------------------------
(* Program constants *)

MIN_YEAR == 1895
\* new Date().getFullYear()
CurrentYear == 2026
MAX_YEAR == CurrentYear + 10
VALID_FORMATS == {Str("VHS"), Str("DVD"), Str("Blu-Ray"), Str("Digital")}
MOVIE_FILE_TEXT_FIELDS == <<"Title", "Release Year", "Format", "Stars">>
\* the longest title and actor name, in characters
MAX_TEXT_LENGTH == 255

\* ACTOR_NAME_REGEX = /^[a-zA-ZÀ-ž.'\- ]+$/ on one atom
IsNameAtom(a) ==
  a \in {"A", "a", "b", "M", "m", "I", "i", "x255", "x256", " ", ".", "'", "-"}

ACTOR_NAME_REGEX_test(s) == s # <<>> /\ \A i \in 1..Len(s) : IsNameAtom(s[i])

----------------------------------------------------------------------------
(* The store: tables movies, actors, movie_actors and their AUTOINCREMENT  *)
(* counters                                                                *)

Store == [movies |-> movies, actors |-> actors, movie_actors |-> movie_actors,
          movieSeq |-> movieSeq, actorSeq |-> actorSeq]

\* the actor rows joined to a movie through movie_actors
ActorsOf(db, movieId) ==
  {a \in db.actors : [movieId |-> movieId, actorId |-> a.id] \in db.movie_actors}

\* A value of the INTEGER column year, written as text: the decimal numeral
\* of an integer, or text that SQLite could not convert and kept as it is.
SqlInteger(n) == toString(n)

\* column affinity INTEGER applied to a bound text value
IntegerAffinity(text) ==
  IF trim(text) # <<>> /\ ~Number(text).nan THEN SqlInteger(Number(text).v) ELSE text

\* a movie row loaded with include: actors
buildQueryWithActors(db, m) ==
  [id |-> m.id, title |-> m.title, year |-> m.year, format |-> m.format,
   actors |-> ActorsOf(db, m.id)]

normalizeField(field) == toLowerCase(field)

\* a lookup by the lowercased title
listBySearchTitleYearAndFormat(db, title, year, format) ==
  IF year.nan
  THEN [error |-> "SequelizeDatabaseError", rows |-> {}]
  ELSE [error |-> "none",
        rows |-> {buildQueryWithActors(db, m) :
                    m \in {x \in db.movies : /\ x.searchTitle = toLowerCase(trim(title))
                                             /\ x.year = SqlInteger(year.v)
                                             /\ x.format = trim(format)}}]

\* findAll where title = trim(title), year = year, format = trim(format).
\* year is a JavaScript number; SQLite compares text with BINARY collation.
\* A NaN year is written into the statement as the bare word NaN, which
\* SQLite rejects (no such column), so the query throws.
listByTitleYearAndFormat(db, title, year, format) ==
  IF year.nan
  THEN [error |-> "SequelizeDatabaseError", rows |-> {}]
  ELSE [error |-> "none",
        rows |-> {buildQueryWithActors(db, m) :
                    m \in {x \in db.movies : /\ x.title = trim(title)
                                             /\ x.year = SqlInteger(year.v)
                                             /\ x.format = trim(format)}}]

----------------------------------------------------------------------------
(* Actor resolver *)

\* the row a Map built from the found rows keeps for a name: the last one
ActorByName(rows, name) ==
  CHOOSE a \in rows : a.name = name /\ \A b \in rows : b.name = name => b.id <= a.id

\* the rows ActorModel.bulkCreate inserts for the names, ids in their order
bulkCreateActors(db, newActorNames) ==
  {[id |-> db.actorSeq + i,
    name |-> newActorNames[i],
    searchName |-> normalizeField(newActorNames[i])] : i \in 1..Len(newActorNames)}

\* a resolver that looks no name up and creates a row for each
resolveActorsByNames_createAll(db, actorNames) ==
  With(uniqueSeq([i \in 1..Len(actorNames) |-> trim(actorNames[i])]),
       LAMBDA uniqueNames :
  With(bulkCreateActors(db, uniqueNames),
       LAMBDA createdActors :
    [db |-> [db EXCEPT !.actors = @ \cup createdActors,
                       !.actorSeq = @ + Len(uniqueNames)],
     actorMap |-> [name \in Range(uniqueNames) |-> ActorByName(createdActors, name)]]))

resolveActorsByNames(db, actorNames) ==
  With(uniqueSeq([i \in 1..Len(actorNames) |-> trim(actorNames[i])]),
       LAMBDA uniqueNames :
  With({a \in db.actors : a.name \in Range(uniqueNames)},
       LAMBDA existingActors :
  With(SelectSeq(uniqueNames, LAMBDA name : \A a \in existingActors : a.name # name),
       LAMBDA newActorNames :
  With(bulkCreateActors(db, newActorNames),
       LAMBDA createdActors :
    [db |-> [db EXCEPT !.actors = @ \cup createdActors,
                       !.actorSeq = @ + Len(newActorNames)],
     actorMap |-> [name \in Range(uniqueNames) |->
                     ActorByName(existingActors \cup createdActors, name)]]))))

\* a setActors that adds the rows and keeps the earlier ones
setActors_keepEarlier(db, movieId, actorInstances) ==
  [db EXCEPT !.movie_actors =
     @ \cup {[movieId |-> movieId, actorId |-> a.id] : a \in actorInstances}]

\* movie.setActors(actorInstances): the movie's rows of movie_actors replaced
setActors(db, movieId, actorInstances) ==
  [db EXCEPT !.movie_actors =
     {l \in @ : l.movieId # movieId}
     \cup {[movieId |-> movieId, actorId |-> a.id] : a \in actorInstances}]

\* #updateActorList: nothing for an empty list, else resolve and setActors
updateActorList(db, movieId, actorNames) ==
  IF Len(actorNames) = 0 THEN db
  ELSE With(resolveActorsByNames(db, actorNames), LAMBDA r :
         IF DOMAIN r.actorMap = {} THEN r.db
         ELSE setActors(r.db, movieId, {r.actorMap[n] : n \in DOMAIN r.actorMap}))

----------------------------------------------------------------------------
(* Single create *)

\* the validators of MovieModel, run by MovieModel.create
MovieModelValid(fields) ==
  /\ fields.year >= MIN_YEAR
  /\ fields.year <= MAX_YEAR
  /\ fields.format \in VALID_FORMATS

\* MovieModel.create: the row inserted with the next id
insertMovie(db, movieFields) ==
  [db EXCEPT !.movies = @ \cup {[id |-> db.movieSeq + 1,
                                 title |-> movieFields.title,
                                 year |-> SqlInteger(movieFields.year),
                                 format |-> movieFields.format,
                                 searchTitle |-> normalizeField(movieFields.title)]},
             !.movieSeq = @ + 1]

\* MovieSequelizeDao.create: one transaction; a throw rolls everything back
MovieDao_create(db, dtoIn) ==
  IF ~MovieModelValid(dtoIn)
  THEN [db |-> db, error |-> "SequelizeValidationError", id |-> 0]
  ELSE [db |-> updateActorList(insertMovie(db, dtoIn), db.movieSeq + 1, dtoIn.actors),
        error |-> "none", id |-> db.movieSeq + 1]

\* a normalize that trims and keeps the case
normalizeActorName_keepCase(name) == trim(name)

normalizeActorName(name) == toLowerCase(trim(name))

\* new Set(actors.map(normalize))
toActorSet(actorNames) == {normalizeActorName(actorNames[i]) : i \in 1..Len(actorNames)}

\* new Set(movie.actors.map(a => normalize(a.name)))
toActorSetFromMovie(existingMovie) ==
  {normalizeActorName(a.name) : a \in existingMovie.actors}

\* same size and every member of the first in the second
actorsEqual(firstSet, secondSet) ==
  /\ Cardinality(firstSet) = Cardinality(secondSet)
  /\ \A value \in firstSet : value \in secondSet

hasDuplicateActors(existingMovies, inputActorSet) ==
  \E existingMovie \in existingMovies :
    actorsEqual(inputActorSet, toActorSetFromMovie(existingMovie))

\* the loop of #ensureNoDuplicate over the movies found
sameActorsAsSome(movieList, inputActorSet) ==
  \E movie \in movieList :
    With(toActorSetFromMovie(movie), LAMBDA movieActorSet :
      /\ Cardinality(movieActorSet) = Cardinality(inputActorSet)
      /\ \A actor \in inputActorSet : actor \in movieActorSet)

\* CreateAbl.#ensureNoDuplicate: the error it throws, or "none"
ensureNoDuplicate(db, dtoIn) ==
  With(listByTitleYearAndFormat(db, dtoIn.title, Num(dtoIn.year), dtoIn.format).rows,
       LAMBDA movieList :
    IF movieList = {} THEN "none"
    ELSE IF sameActorsAsSome(movieList, toActorSet(dtoIn.actors))
         THEN "movieAlreadyExists"
         ELSE "none")

prepareCreateDtoIn(dtoIn) ==
  [title |-> dtoIn.title, year |-> dtoIn.year, format |-> dtoIn.format,
   actors |-> dtoIn.actors]

\* a create that resolves the actors before it looks for a duplicate
CreateAbl_create_actorsFirst(db, dtoIn) ==
  With(resolveActorsByNames(db, dtoIn.actors).db, LAMBDA withActors :
  With(ensureNoDuplicate(withActors, dtoIn), LAMBDA duplicate :
    IF duplicate # "none"
    THEN [db |-> withActors, error |-> duplicate, id |-> 0]
    ELSE MovieDao_create(withActors, prepareCreateDtoIn(dtoIn))))

\* CreateAbl.create
CreateAbl_create(db, dtoIn) ==
  With(ensureNoDuplicate(db, dtoIn), LAMBDA duplicate :
    IF duplicate # "none"
    THEN [db |-> db, error |-> duplicate, id |-> 0]
    ELSE MovieDao_create(db, prepareCreateDtoIn(dtoIn)))

----------------------------------------------------------------------------
(* Bulk create *)

\* `${m.title}|${m.year}|${m.format}`
buildKey(m) == m.title \o Str("|") \o m.year \o Str("|") \o m.format

\* the keys of the Map that groups the candidates
groupMoviesByKey(movieList) == {buildKey(movieList[i]) : i \in 1..Len(movieList)}

\* one lookup for a key: const [title, year, format] = key.split("|")
lookupKey(db, key) ==
  With(split(key, "|"), LAMBDA parts :
    listByTitleYearAndFormat(db, parts[1], Number(parts[2]), parts[3]))

\* the lookups of all keys: the first that throws ends the call
loadExistingByKey(db, inputByKey) ==
  With([key \in inputByKey |-> lookupKey(db, key)], LAMBDA found :
    [error |-> IF \E key \in inputByKey : found[key].error # "none"
               THEN "SequelizeDatabaseError" ELSE "none",
     existingByKey |-> [key \in inputByKey |-> found[key].rows]])

\* the candidates kept, in order
filterDuplicates(db, movieList) ==
  With(loadExistingByKey(db, groupMoviesByKey(movieList)), LAMBDA loaded :
    [error |-> loaded.error,
     result |->
       IF loaded.error # "none" THEN <<>>
       ELSE SelectSeq(movieList, LAMBDA movie :
              \/ loaded.existingByKey[buildKey(movie)] = {}
              \/ ~hasDuplicateActors(loaded.existingByKey[buildKey(movie)],
                                     toActorSet(movie.actors)))])

\* uniqueMovies.flatMap(m => m.actors)
RECURSIVE flatActors(_)
flatActors(uniqueMovies) ==
  IF uniqueMovies = <<>> THEN <<>>
  ELSE Head(uniqueMovies).actors \o flatActors(Tail(uniqueMovies))

buildActorMap(db, uniqueMovies) == resolveActorsByNames(db, flatActors(uniqueMovies))

\* MovieModel.bulkCreate: consecutive ids in the order of the records; no
\* model validation runs, and SQLite applies the column affinity to year
createMovies(db, uniqueMovies) ==
  With([i \in 1..Len(uniqueMovies) |->
          [id |-> db.movieSeq + i,
           title |-> uniqueMovies[i].title,
           year |-> IntegerAffinity(uniqueMovies[i].year),
           format |-> uniqueMovies[i].format,
           searchTitle |-> normalizeField(uniqueMovies[i].title)]],
       LAMBDA rows :
    [db |-> [db EXCEPT !.movies = @ \cup Range(rows),
                       !.movieSeq = @ + Len(uniqueMovies)],
     movies |-> rows])

\* rows that link a created movie to every actor of the batch
linkRows_wholeBatch(movieId, actorNames, actorMap) ==
  {[movieId |-> movieId, actorId |-> actorMap[name].id] : name \in DOMAIN actorMap}

\* the rows of movie_actors for one created movie
linkRows(movieId, actorNames, actorMap) ==
  {[movieId |-> movieId, actorId |-> actorMap[name].id] :
     name \in {trim(actorNames[j]) : j \in 1..Len(actorNames)} \cap DOMAIN actorMap}

linkMoviesToActors(db, createdMovies, uniqueMovies, actorMap) ==
  [db EXCEPT !.movie_actors =
     @ \cup UNION {linkRows(createdMovies[i].id, uniqueMovies[i].actors, actorMap) :
                     i \in 1..Len(createdMovies)}]

\* an empty result that reports nothing skipped
buildEmptyResult_noneSkipped(db, inputLength) ==
  [db |-> db, error |-> "none", itemList |-> <<>>,
   total |-> Cardinality(db.movies), skipped |-> 0]

buildEmptyResult(db, inputLength) ==
  [db |-> db, error |-> "none", itemList |-> <<>>,
   total |-> Cardinality(db.movies), skipped |-> inputLength]

buildResult(db, createdMovies, inputLength, uniqueLength) ==
  [db |-> db, error |-> "none",
   itemList |-> [i \in 1..Len(createdMovies) |-> createdMovies[i].id],
   total |-> Cardinality(db.movies), skipped |-> inputLength - uniqueLength]

\* createMany after the filter: actors resolved, movies inserted, rows linked
insertUnique(db, uniqueMovies, inputLength) ==
  With(buildActorMap(db, uniqueMovies), LAMBDA resolved :
  With(createMovies(resolved.db, uniqueMovies), LAMBDA created :
    buildResult(linkMoviesToActors(created.db, created.movies, uniqueMovies,
                                   resolved.actorMap),
                created.movies, inputLength, Len(uniqueMovies))))

\* MovieSequelizeDao.createMany: one transaction
createMany(db, movieList) ==
  With(filterDuplicates(db, movieList), LAMBDA filtered :
    IF filtered.error # "none"
    THEN [db |-> db, error |-> filtered.error, itemList |-> <<>>,
          total |-> 0, skipped |-> 0]
    ELSE IF Len(filtered.result) = 0
         THEN buildEmptyResult(db, Len(movieList))
         ELSE insertUnique(db, filtered.result, Len(movieList)))

\* the items of #buildResult: m.get({ plain: true }) of each instance that
\* bulkCreate returned, without searchTitle; the instance has the id and the
\* attributes of the record it was built from, which the actors are not
\* among
buildResultItems(createdMovies, uniqueMovies) ==
  [i \in 1..Len(createdMovies) |->
     [id |-> createdMovies[i].id, title |-> uniqueMovies[i].title,
      year |-> uniqueMovies[i].year, format |-> uniqueMovies[i].format]]

\* the itemList of createMany, item by item
createManyItems(db, movieList) ==
  With(filterDuplicates(db, movieList), LAMBDA filtered :
    IF filtered.error # "none" \/ Len(filtered.result) = 0 THEN <<>>
    ELSE buildResultItems(
           createMovies(buildActorMap(db, filtered.result).db, filtered.result).movies,
           filtered.result))

----------------------------------------------------------------------------
(* Inputs *)

\* actor names as the callers write them
nameM == Str("M")
nameI == Str("I")
nameLowerI == Str("i")
namePaddedLowerM == <<" ", "m", " ">>

\* actor lists of create: one name; two names; the same two names in the
\* other order, in another case, with blanks around one and one repeated
listM == <<nameM>>
listMI == <<nameM, nameI>>
listIMI == <<nameLowerI, namePaddedLowerM, nameLowerI>>

titleA == Str("A")
titleLowerA == Str("a")
titleWithBars == <<"A", "|", "1999", "|", "DVD">>

\* title, year and format of the create requests, as the validation schema
\* of POST /movies hands them over (title and format trimmed, year an integer
\* in range); the actor names keep their blanks, as in the requests the unit
\* tests make:
\* one key, and the keys that differ from it in the case of the title, in
\* the year, in the format
keyA == [title |-> titleA, year |-> 1999, format |-> Str("DVD")]

OtherKeys ==
  { [title |-> titleLowerA, year |-> 1999, format |-> Str("DVD")],
    [title |-> titleA, year |-> 2000, format |-> Str("DVD")],
    [title |-> titleA, year |-> 1999, format |-> Str("VHS")] }

CreateDto(k, l) ==
  [title |-> k.title, year |-> k.year, format |-> k.format, actors |-> l]

CreateInputs ==
  {CreateDto(keyA, l) : l \in {listM, listMI, listIMI}}
  \cup {CreateDto(k, l) : k \in OtherKeys, l \in {listMI, listIMI}}

\* a line of an import file, trimmed: "<name>: <value>"
FieldLine(name, value) == <<name, ":", " ">> \o value

\* a block of four lines
Block(title, year, format, stars) ==
  << FieldLine("Title", title), FieldLine("Release Year", year),
     FieldLine("Format", format), FieldLine("Stars", stars) >>

starsM == <<"M">>
starsIMI == <<"i", ",", "M", " ", ",", " ", "i", ",">>

blockM == Block(titleA, Str("1999"), Str("DVD"), starsM)
blockIMI == Block(titleA, Str("1999"), Str("DVD"), starsIMI)
blockBars == Block(titleWithBars, Str("2000"), Str("VHS"), starsM)

\* blocks the parser rejects: a year out of range, three lines
blockYear1894 == Block(titleA, Str("1894"), Str("DVD"), starsM)
blockThreeLines == SubSeq(blockM, 1, 3)

\* the blocks the import requests are built from
ImportBlocks == {blockM, blockIMI, blockYear1894, blockThreeLines}

\* the lines of a file made of the given blocks: a blank before the first
\* line, a blank line after every block but the last
RECURSIVE FileOf(_)
FileOf(blocks) ==
  IF blocks = <<>> THEN <<>>
  ELSE IF Len(blocks) = 1 THEN Head(blocks)
       ELSE Head(blocks) \o << <<>> >> \o FileOf(Tail(blocks))

BlockSeqs(n) == UNION {[1..k -> ImportBlocks] : k \in 0..n}

ImportFiles == {FileOf(bs) : bs \in BlockSeqs(MaxBlocks)}

\* the lines the blocks of the parser's own inputs are built from
TitleLines ==
  { FieldLine("Title", titleA), FieldLine("TITLE", titleA),
    <<"Title", " ", "A">>, <<"Title", ":">>,
    FieldLine("Title", Str("x255")), FieldLine("Title", Str("x256")) }

YearLines ==
  { FieldLine("Release Year", y) :
      y \in { Str("1999"), Str("1895"), Str("1894"), Str("2036"), Str("2037"),
              Str("b"), <<"1999", "b">> } }

FormatLines == { FieldLine("Format", Str("DVD")), FieldLine("Format", Str("dvd")) }

StarsLines ==
  { FieldLine("Stars", s) :
      s \in { starsM, starsIMI, <<",", " ", ",">>, Str("1999"), Str("x256") } }

\* blocks of four lines in the order of the file format; the same in the
\* reverse order; three lines; five lines; four lines, two of them titles
ParseBlocks ==
  { <<t, y, f, s>> : t \in TitleLines, y \in YearLines, f \in FormatLines, s \in StarsLines }
  \cup { <<s, f, y, t>> : t \in TitleLines, y \in {FieldLine("Release Year", Str("1999"))},
                          f \in FormatLines, s \in StarsLines }
  \cup { <<t, y, f>> : t \in TitleLines, y \in YearLines, f \in FormatLines }
  \cup { <<t, y, f, s, t>> : t \in TitleLines, y \in {FieldLine("Release Year", Str("1999"))},
                             f \in FormatLines, s \in StarsLines }
  \cup { <<t, t, y, f>> : t \in TitleLines, y \in YearLines, f \in FormatLines }

----------------------------------------------------------------------------
(* Import parser *)

toCamelCase(field) ==
  CASE field = "Title" -> "title"
    [] field = "Release Year" -> "releaseYear"
    [] field = "Format" -> "format"
    [] field = "Stars" -> "stars"

\* `${field.toLowerCase()}:`
fieldPrefix(field) == toLowerCase(Str(field)) \o Str(":")

\* line.toLowerCase().startsWith(prefix)
IsFieldLine(line, field) == startsWith(toLowerCase(line), fieldPrefix(field))

\* block.find(...): the index of the first line of the field, 0 for none
findLine(block, field) ==
  IF \E i \in 1..Len(block) : IsFieldLine(block[i], field)
  THEN CHOOSE i \in 1..Len(block) :
         /\ IsFieldLine(block[i], field)
         /\ \A j \in 1..(i - 1) : ~IsFieldLine(block[j], field)
  ELSE 0

\* line.slice(prefix.length).trim()
fieldValue(line, field) == trim(slice(line, Len(fieldPrefix(field))))

\* the field whose camelCase name is the key
fieldOfKey(key) ==
  CHOOSE field \in Range(MOVIE_FILE_TEXT_FIELDS) : toCamelCase(field) = key

\* a block parser without the line count
parseMovieBlock_anyLineCount(block) ==
  IF \E field \in Range(MOVIE_FILE_TEXT_FIELDS) : findLine(block, field) = 0
  THEN [error |-> "moviesMissingRequiredFields", parsedBlock |-> <<>>]
  ELSE [error |-> "none",
        parsedBlock |->
          [key \in {toCamelCase(field) : field \in Range(MOVIE_FILE_TEXT_FIELDS)} |->
             fieldValue(block[findLine(block, fieldOfKey(key))], fieldOfKey(key))]]

\* ImportAbl.#parseMovieBlock
parseMovieBlock(block) ==
  IF Len(block) # Len(MOVIE_FILE_TEXT_FIELDS)
  THEN [error |-> "invalidFileContent", parsedBlock |-> <<>>]
  ELSE IF \E field \in Range(MOVIE_FILE_TEXT_FIELDS) : findLine(block, field) = 0
       THEN [error |-> "moviesMissingRequiredFields", parsedBlock |-> <<>>]
       ELSE [error |-> "none",
             parsedBlock |->
               [key \in {toCamelCase(field) : field \in Range(MOVIE_FILE_TEXT_FIELDS)} |->
                  fieldValue(block[findLine(block, fieldOfKey(key))], fieldOfKey(key))]]

releaseYearValidation(textBlock) ==
  With(parseInt(textBlock.releaseYear), LAMBDA year :
    IF year.nan \/ year.v < MIN_YEAR \/ year.v > MAX_YEAR
    THEN "invalidInputData" ELSE "none")

formatValidation(textBlock) ==
  IF textBlock.format \notin VALID_FORMATS THEN "invalidFileContent" ELSE "none"

\* stars.split(",").map(a => a.trim()).filter(Boolean)
starsToActors(stars) ==
  With(split(stars, ","), LAMBDA parts :
    SelectSeq([i \in 1..Len(parts) |-> trim(parts[i])], LAMBDA a : a # <<>>))

actorsValidation(textBlock) ==
  With(starsToActors(textBlock.stars), LAMBDA actorList :
    IF Len(actorList) = 0 THEN "invalidFileContent"
    ELSE IF \E i \in 1..Len(actorList) :
              \/ length(actorList[i]) > MAX_TEXT_LENGTH
              \/ ~ACTOR_NAME_REGEX_test(actorList[i])
         THEN "invalidFileContent"
         ELSE "none")

titleValidation(textBlock) ==
  With(length(textBlock.title), LAMBDA titleLength :
    IF titleLength = 0 THEN "invalidFileContent"
    ELSE IF titleLength > MAX_TEXT_LENGTH THEN "invalidFileContent"
         ELSE "none")

\* the first error of a sequence of checks run in order, or "none"
firstError(errors) ==
  IF \A i \in 1..Len(errors) : errors[i] = "none" THEN "none"
  ELSE errors[CHOOSE i \in 1..Len(errors) :
                /\ errors[i] # "none"
                /\ \A j \in 1..(i - 1) : errors[j] = "none"]

\* a validation that looks at the format before the year
validateMovieBlock_formatFirst(textBlock) ==
  firstError(<< formatValidation(textBlock), releaseYearValidation(textBlock),
                actorsValidation(textBlock), titleValidation(textBlock) >>)

\* ImportAbl.#validateMovieBlock: the first check that throws
validateMovieBlock(textBlock) ==
  firstError(<< releaseYearValidation(textBlock), formatValidation(textBlock),
                actorsValidation(textBlock), titleValidation(textBlock) >>)

\* the check of flushBlock that throws for a block, in the order in which
\* #parseMovieBlock and #validateMovieBlock run them, or "none"
throwingCheck(block) ==
  IF Len(block) # Len(MOVIE_FILE_TEXT_FIELDS) THEN "lineCount"
  ELSE IF parseMovieBlock(block).error # "none" THEN "missingFields"
  ELSE With(parseMovieBlock(block).parsedBlock, LAMBDA textBlock :
         IF releaseYearValidation(textBlock) # "none" THEN "releaseYear"
         ELSE IF formatValidation(textBlock) # "none" THEN "format"
         ELSE IF actorsValidation(textBlock) # "none" THEN "stars"
         ELSE IF titleValidation(textBlock) # "none" THEN "title"
         ELSE "none")

prepareImportDtoIn(dtoIn) ==
  [title |-> dtoIn.title, year |-> dtoIn.releaseYear, format |-> dtoIn.format,
   actors |-> starsToActors(dtoIn.stars)]

\* flushBlock of #parseMoviesFile: the error thrown, or the record to push
flushBlock(block) ==
  With(parseMovieBlock(block), LAMBDA parsed :
    IF parsed.error # "none" THEN [error |-> parsed.error, movie |-> <<>>]
    ELSE With(validateMovieBlock(parsed.parsedBlock), LAMBDA invalid :
           IF invalid # "none" THEN [error |-> invalid, movie |-> <<>>]
           ELSE [error |-> "none", movie |-> prepareImportDtoIn(parsed.parsedBlock)]))

\* the loop of #parseMoviesFile over the lines left, with the block and the
\* records collected so far; the end of the file flushes the last block.
\* With an error, movies is the list the throw leaves behind.
RECURSIVE parseLines(_, _, _)
parseLines(lines, block, movieList) ==
  IF lines = <<>> /\ block = <<>>
  THEN [error |-> "none", movies |-> movieList]
  ELSE IF lines # <<>> /\ trim(Head(lines)) # <<>>
       THEN parseLines(Tail(lines), Append(block, trim(Head(lines))), movieList)
       ELSE IF block = <<>> THEN parseLines(Tail(lines), <<>>, movieList)
            ELSE With(flushBlock(block), LAMBDA flushed :
                   IF flushed.error # "none"
                   THEN [error |-> flushed.error, movies |-> movieList]
                   ELSE parseLines(IF lines = <<>> THEN <<>> ELSE Tail(lines),
                                   <<>>, Append(movieList, flushed.movie)))

\* #parseMoviesFile on every file of the import requests, computed once
ParsedFiles == [file \in ImportFiles |-> parseLines(file, <<>>, <<>>)]

\* ImportAbl.#parseMoviesFile; the file is its sequence of lines
parseMoviesFile(file) ==
  IF file \in DOMAIN ParsedFiles THEN ParsedFiles[file]
  ELSE parseLines(file, <<>>, <<>>)

NoMeta == [imported |-> 0, duplicates |-> 0, total |-> 0]

\* an import that creates the records parsed so far before it raises the
\* error of a block
ImportAbl_import_blockByBlock(db, file) ==
  With(parseMoviesFile(file), LAMBDA parsed :
  With(createMany(db, parsed.movies), LAMBDA created :
    IF parsed.error # "none"
    THEN [db |-> created.db, error |-> parsed.error, data |-> <<>>, meta |-> NoMeta]
    ELSE IF created.error # "none"
         THEN [db |-> db, error |-> created.error, data |-> <<>>, meta |-> NoMeta]
         ELSE [db |-> created.db, error |-> "none", data |-> created.itemList,
               meta |-> [imported |-> Len(created.itemList),
                         duplicates |-> created.skipped,
                         total |-> created.total]]))

\* ImportAbl.import
ImportAbl_import(db, file) ==
  With(parseMoviesFile(file), LAMBDA parsed :
    IF parsed.error # "none"
    THEN [db |-> db, error |-> parsed.error, data |-> <<>>, meta |-> NoMeta]
    ELSE With(createMany(db, parsed.movies), LAMBDA created :
           IF created.error # "none"
           THEN [db |-> db, error |-> created.error, data |-> <<>>, meta |-> NoMeta]
           ELSE [db |-> created.db, error |-> "none", data |-> created.itemList,
                 meta |-> [imported |-> Len(created.itemList),
                           duplicates |-> created.skipped,
                           total |-> created.total]]))

----------------------------------------------------------------------------
(* Transactions, and the statements of a request that may be rejected      *)

\* the awaited statement of a request that the database rejects, if any:
\* the actor lookup and insert, the write of movie_actors, the write of the
\* movie row or rows
Faults == {"none", "actors", "link", "movie"}

\* a managed transaction that commits whatever was written
transaction_commitAlways(db, r) == r

\* sequelize.transaction(callback): a throw of the callback rolls back every
\* write made with the transaction, the counters of sqlite_sequence included,
\* and is thrown to the caller
transaction(db, r) == IF r.error # "none" THEN [r EXCEPT !.db = db] ELSE r

\* #updateActorList statement by statement: the tables as the statements
\* left them, and the error thrown
updateActorListSteps(db, movieId, actorNames, fault) ==
  IF Len(actorNames) = 0 THEN [db |-> db, error |-> "none"]
  ELSE IF fault = "actors" THEN [db |-> db, error |-> "SequelizeDatabaseError"]
  ELSE With(resolveActorsByNames(db, actorNames), LAMBDA r :
         IF DOMAIN r.actorMap = {} THEN [db |-> r.db, error |-> "none"]
         ELSE IF fault = "link"
              THEN [db |-> r.db, error |-> "SequelizeDatabaseError"]
              ELSE [db |-> setActors(r.db, movieId,
                                     {r.actorMap[n] : n \in DOMAIN r.actorMap}),
                    error |-> "none"])

\* the callback of create: the movie row, then the actors and their links
createSteps(db, dtoIn, fault) ==
  IF ~MovieModelValid(dtoIn)
  THEN [db |-> db, error |-> "SequelizeValidationError", id |-> 0]
  ELSE IF fault = "movie"
  THEN [db |-> db, error |-> "SequelizeDatabaseError", id |-> 0]
  ELSE With(updateActorListSteps(insertMovie(db, dtoIn), db.movieSeq + 1,
                                 dtoIn.actors, fault),
            LAMBDA linked :
         [db |-> linked.db, error |-> linked.error,
          id |-> IF linked.error = "none" THEN db.movieSeq + 1 ELSE 0])

\* MovieSequelizeDao.create, with a statement that may be rejected
MovieDao_createOrThrow(db, dtoIn, fault) ==
  transaction(db, createSteps(db, dtoIn, fault))

\* CreateAbl.create, with a statement that may be rejected
CreateAbl_createOrThrow(db, dtoIn, fault) ==
  With(ensureNoDuplicate(db, dtoIn), LAMBDA duplicate :
    IF duplicate # "none"
    THEN [db |-> db, error |-> duplicate, id |-> 0]
    ELSE MovieDao_createOrThrow(db, prepareCreateDtoIn(dtoIn), fault))

\* the callback of createMany after the filter
insertUniqueSteps(db, uniqueMovies, inputLength, fault) ==
  IF fault = "actors"
  THEN [db |-> db, error |-> "SequelizeDatabaseError", itemList |-> <<>>,
        total |-> 0, skipped |-> 0]
  ELSE
  With(buildActorMap(db, uniqueMovies), LAMBDA resolved :
    IF fault = "movie"
    THEN [db |-> resolved.db, error |-> "SequelizeDatabaseError", itemList |-> <<>>,
          total |-> 0, skipped |-> 0]
    ELSE
    With(createMovies(resolved.db, uniqueMovies), LAMBDA created :
      IF fault = "link"
      THEN [db |-> created.db, error |-> "SequelizeDatabaseError", itemList |-> <<>>,
            total |-> 0, skipped |-> 0]
      ELSE buildResult(linkMoviesToActors(created.db, created.movies, uniqueMovies,
                                          resolved.actorMap),
                       created.movies, inputLength, Len(uniqueMovies))))

\* a createMany whose statements run outside the transaction
createManyOrThrow_noTransaction(db, movieList, fault) ==
  With(filterDuplicates(db, movieList), LAMBDA filtered :
    IF filtered.error # "none"
    THEN [db |-> db, error |-> filtered.error, itemList |-> <<>>,
          total |-> 0, skipped |-> 0]
    ELSE IF Len(filtered.result) = 0
         THEN buildEmptyResult(db, Len(movieList))
         ELSE insertUniqueSteps(db, filtered.result, Len(movieList), fault))

\* MovieSequelizeDao.createMany, with a statement that may be rejected
createManyOrThrow(db, movieList, fault) ==
  With(filterDuplicates(db, movieList), LAMBDA filtered :
    IF filtered.error # "none"
    THEN [db |-> db, error |-> filtered.error, itemList |-> <<>>,
          total |-> 0, skipped |-> 0]
    ELSE IF Len(filtered.result) = 0
         THEN buildEmptyResult(db, Len(movieList))
         ELSE transaction(db, insertUniqueSteps(db, filtered.result,
                                                Len(movieList), fault)))

----------------------------------------------------------------------------
(* Get, update and delete *)

\* Errors.MovieDoesNotExist
MovieDoesNotExist == [code |-> "movieDoesNotExist", statusCode |-> 404]

\* findByPk: the rows with the id, none or one
findByPk(db, id) == {m \in db.movies : m.id = id}

\* MovieSequelizeDao.getById: the movie with its actors, or null
getById(db, id) ==
  [found |-> findByPk(db, id) # {},
   movie |-> {buildQueryWithActors(db, m) : m \in findByPk(db, id)}]

\* GetAbl.get
GetAbl_get(db, dtoIn) ==
  With(getById(db, dtoIn.id), LAMBDA r :
    [error |-> IF r.found THEN "none" ELSE "movieDoesNotExist", data |-> r.movie])

\* An update input: the id and the keys the object has among title, year,
\* format and actors; a key outside given is absent and its value unused.
UpdateDto(id, given, title, year, format, actorNames) ==
  [id |-> id, given |-> given, title |-> title, year |-> year,
   format |-> format, actors |-> actorNames]

\* const { id, actors, ...movieFields } = dtoIn: the keys of movieFields
movieFieldsOf(dtoIn) == dtoIn.given \ {"actors"}

\* actors?.length of the input
actorsOf(dtoIn) == IF "actors" \in dtoIn.given THEN dtoIn.actors ELSE <<>>

\* the validators movie.update runs: those of the attributes it saves
UpdateModelValid(dtoIn) ==
  /\ "year" \in dtoIn.given => dtoIn.year >= MIN_YEAR /\ dtoIn.year <= MAX_YEAR
  /\ "format" \in dtoIn.given => dtoIn.format \in VALID_FORMATS

\* a row written with every attribute of the input, given or not
updatedRow_everyAttribute(m, dtoIn) ==
  [id |-> m.id, title |-> dtoIn.title, year |-> SqlInteger(dtoIn.year),
   format |-> dtoIn.format, searchTitle |-> normalizeField(dtoIn.title)]

\* the row movie.update writes: the given attributes, and searchTitle when
\* the title given is not falsy
updatedRow(m, dtoIn) ==
  [id |-> m.id,
   title |-> IF "title" \in dtoIn.given THEN dtoIn.title ELSE m.title,
   year |-> IF "year" \in dtoIn.given THEN SqlInteger(dtoIn.year) ELSE m.year,
   format |-> IF "format" \in dtoIn.given THEN dtoIn.format ELSE m.format,
   searchTitle |-> IF "title" \in dtoIn.given /\ dtoIn.title # <<>>
                   THEN normalizeField(dtoIn.title) ELSE m.searchTitle]

\* the callback of update once the movie is found: the actors replaced,
\* then the attributes written
updateFound(db, dtoIn, fault) ==
  With(updateActorListSteps(db, dtoIn.id, actorsOf(dtoIn), fault), LAMBDA linked :
    IF linked.error # "none"
    THEN [db |-> linked.db, error |-> linked.error, found |-> TRUE]
    ELSE IF ~UpdateModelValid(dtoIn)
    THEN [db |-> linked.db, error |-> "SequelizeValidationError", found |-> TRUE]
    ELSE IF fault = "movie" /\ movieFieldsOf(dtoIn) # {}
    THEN [db |-> linked.db, error |-> "SequelizeDatabaseError", found |-> TRUE]
    ELSE [db |-> [linked.db EXCEPT !.movies =
                    {IF m.id = dtoIn.id THEN updatedRow(m, dtoIn) ELSE m : m \in @}],
          error |-> "none", found |-> TRUE])

\* an update that resolves the actors before it looks for the movie
updateSteps_actorsFirst(db, dtoIn, fault) ==
  IF findByPk(db, dtoIn.id) = {}
  THEN [db |-> resolveActorsByNames(db, actorsOf(dtoIn)).db,
        error |-> "none", found |-> FALSE]
  ELSE updateFound(db, dtoIn, fault)

\* the callback of update: null when no movie has the id
updateSteps(db, dtoIn, fault) ==
  IF findByPk(db, dtoIn.id) = {}
  THEN [db |-> db, error |-> "none", found |-> FALSE]
  ELSE updateFound(db, dtoIn, fault)

\* MovieSequelizeDao.update: one transaction; the movie as stored afterwards,
\* or null
MovieDao_update(db, dtoIn, fault) ==
  With(transaction(db, updateSteps(db, dtoIn, fault)), LAMBDA r :
    [db |-> r.db, error |-> r.error, found |-> r.found,
     movie |-> IF r.error = "none" THEN getById(r.db, dtoIn.id).movie ELSE {}])

\* UpdateAbl.update
UpdateAbl_update(db, dtoIn, fault) ==
  With(MovieDao_update(db, dtoIn, fault), LAMBDA r :
    [db |-> r.db,
     error |-> IF r.error # "none" THEN r.error
               ELSE IF ~r.found THEN "movieDoesNotExist" ELSE "none",
     data |-> r.movie])

\* a destroy that leaves the rows of movie_actors
MovieDao_delete_keepLinks(db, id) ==
  [db |-> [db EXCEPT !.movies = {m \in @ : m.id # id}],
   deleted |-> findByPk(db, id) # {}]

\* MovieSequelizeDao.delete: destroy where id; the rows of movie_actors go
\* with the movie (ON DELETE CASCADE of movieId)
MovieDao_delete(db, id) ==
  [db |-> [db EXCEPT !.movies = {m \in @ : m.id # id},
                     !.movie_actors = {l \in @ : l.movieId # id}],
   deleted |-> findByPk(db, id) # {}]

\* DeleteAbl.delete
DeleteAbl_delete(db, dtoIn) ==
  With(MovieDao_delete(db, dtoIn.id), LAMBDA r :
    [db |-> r.db, error |-> IF r.deleted THEN "none" ELSE "movieDoesNotExist"])

----------------------------------------------------------------------------
(* List *)

DefaultValueMap == [limit |-> 20, offset |-> 0, sort |-> "id", order |-> "ASC"]

\* MovieDto.prepareListDtoIn: a falsy limit, offset, sort or order (0, an
\* empty string, or none) gives way to the default
prepareListDtoIn(dtoIn) ==
  [limit |-> IF dtoIn.limit = 0 THEN DefaultValueMap.limit ELSE dtoIn.limit,
   offset |-> IF dtoIn.offset = 0 THEN DefaultValueMap.offset ELSE dtoIn.offset,
   sort |-> IF dtoIn.sort = "" THEN DefaultValueMap.sort ELSE dtoIn.sort,
   order |-> IF dtoIn.order = "" THEN DefaultValueMap.order ELSE dtoIn.order,
   title |-> dtoIn.title, actor |-> dtoIn.actor, search |-> dtoIn.search]

\* the case folding of the LIKE of SQLite: the letters of ASCII only
LikeFold(a) == IF a \in {"YI", "yi"} THEN a ELSE LowerAtom(a)

\* text LIKE pattern in SQLite: % stands for any run of characters, _ for
\* any one character, a letter of ASCII for itself in either case
RECURSIVE like(_, _)
like(text, pattern) ==
  IF pattern = <<>> THEN text = <<>>
  ELSE IF Head(pattern) = "%"
       THEN like(text, Tail(pattern)) \/ (text # <<>> /\ like(Tail(text), pattern))
       ELSE /\ text # <<>>
            /\ Head(pattern) = "_" \/ LikeFold(Head(text)) = LikeFold(Head(pattern))
            /\ like(Tail(text), Tail(pattern))

\* `%${value.trim().toLowerCase()}%`
searchPattern(value) == Str("%") \o toLowerCase(trim(value)) \o Str("%")

\* #findMovieIdsByActor: the ids of the movies joined to an actor whose
\* searchName is like the pattern
findMovieIdsByActor(db, search) ==
  IF search = <<>> THEN {}
  ELSE {m.id : m \in {x \in db.movies :
                        \E a \in ActorsOf(db, x.id) :
                          like(a.searchName, searchPattern(search))}}

\* #buildMovieWhere: no condition, or the disjunction of a pattern for
\* searchTitle and, for a search that finds actors, a set of ids
buildMovieWhere(db, title, search) ==
  IF title = <<>> /\ search = <<>> THEN [any |-> TRUE, pattern |-> <<>>, ids |-> {}]
  ELSE [any |-> FALSE,
        pattern |-> searchPattern(IF title # <<>> THEN title ELSE search),
        ids |-> findMovieIdsByActor(db, search)]

\* the WHERE clause on a movie row
whereHolds(where, m) ==
  where.any \/ like(m.searchTitle, where.pattern) \/ m.id \in where.ids

\* #buildActorInclude: a join that is required and filtered when an actor
\* is given
buildActorInclude(actor) ==
  [required |-> actor # <<>>,
   pattern |-> IF actor # <<>> THEN searchPattern(actor) ELSE <<>>]

\* the actors the join keeps for a movie
includedActors(db, include, m) ==
  {a \in ActorsOf(db, m.id) : include.required => like(a.searchName, include.pattern)}

\* the rows of the join of movies with their actors: an inner join when the
\* include is required, else a left join with one row, no actor in it, for a
\* movie without actors
joinRows(db, where, include) ==
  UNION {IF includedActors(db, include, m) = {}
         THEN IF include.required THEN {} ELSE {[movieId |-> m.id, actorId |-> 0]}
         ELSE {[movieId |-> m.id, actorId |-> a.id] : a \in includedActors(db, include, m)}
         : m \in {x \in db.movies : whereHolds(where, x)}}

\* a count of the rows of the join
count_joinedRows(db, where, include) == Cardinality(joinRows(db, where, include))

\* MovieModel.count({ where, include, distinct: true }): COUNT(DISTINCT id)
count(db, where, include) ==
  Cardinality({row.movieId : row \in joinRows(db, where, include)})

\* the movies of MovieModel.findAll({ where, include }), each with the
\* actors the join kept
findAll(db, where, include) ==
  {[id |-> m.id, title |-> m.title, year |-> m.year, format |-> m.format,
    actors |-> includedActors(db, include, m)] :
     m \in {x \in db.movies :
              \E row \in joinRows(db, where, include) : row.movieId = x.id}}

\* the orders in which a query may return a set of rows
Orderings(rows) ==
  {f \in [1..Cardinality(rows) -> rows] : \A i, j \in DOMAIN f : f[i] = f[j] => i = j}

\* the comparison of two values of the column id or year: -1, 0 or 1
columnCompare(sort, a, b) ==
  With(IF sort = "id" THEN a.id ELSE DigitsValue(a.year[1]), LAMBDA x :
  With(IF sort = "id" THEN b.id ELSE DigitsValue(b.year[1]), LAMBDA y :
    IF x < y THEN -1 ELSE IF x > y THEN 1 ELSE 0))

\* findAll with order: [[sort, order]]: the rows in an order the ORDER BY
\* allows; rows equal in the column come in any order
findAllOrdered(db, where, include, sort, order) ==
  {f \in Orderings(findAll(db, where, include)) :
     \A i, j \in DOMAIN f :
       i < j => IF order = "DESC" THEN columnCompare(sort, f[i], f[j]) >= 0
                ELSE columnCompare(sort, f[i], f[j]) <= 0}

\* the rank of a letter in the root collation, Latin before Cyrillic, the
\* two cases of a letter alike
PrimaryRank(a) ==
  CASE a \in {"A", "a"} -> 1
    [] a \in {"I", "i"} -> 2
    [] a \in {"M", "m"} -> 3
    [] a \in {"YI", "yi"} -> 4
    [] OTHER -> 0

IsUpperAtom(a) == a \in {"A", "I", "M", "YI"}

\* the first index at which two sequences of numbers differ, 0 if none
RECURSIVE firstDifference(_, _, _)
firstDifference(s, t, i) ==
  IF i > Len(s) \/ i > Len(t) THEN 0
  ELSE IF s[i] # t[i] THEN i ELSE firstDifference(s, t, i + 1)

\* the comparison of two sequences of numbers, a prefix before the longer
compareSeq(s, t) ==
  With(firstDifference(s, t, 1), LAMBDA i :
    IF i = 0
    THEN IF Len(s) < Len(t) THEN -1 ELSE IF Len(s) > Len(t) THEN 1 ELSE 0
    ELSE IF s[i] < t[i] THEN -1 ELSE 1)

\* Intl.Collator("und", { sensitivity: "variant", caseFirst: "upper" })
\* .compare: the letters first, then, for equal letters, upper case first
collatorCompare(titleA_, titleB_) ==
  With(compareSeq([i \in 1..Len(titleA_) |-> PrimaryRank(titleA_[i])],
                  [i \in 1..Len(titleB_) |-> PrimaryRank(titleB_[i])]),
       LAMBDA primary :
    IF primary # 0 THEN primary
    ELSE compareSeq([i \in 1..Len(titleA_) |-> IF IsUpperAtom(titleA_[i]) THEN 0 ELSE 1],
                    [i \in 1..Len(titleB_) |-> IF IsUpperAtom(titleB_[i]) THEN 0 ELSE 1]))

\* a comparison that takes no account of the order asked for
titleComparison_ascendingOnly(a, b, order) ==
  collatorCompare(trim(a.title), trim(b.title))

\* the comparison function of #sortByTitle
titleComparison(a, b, order) ==
  With(collatorCompare(trim(a.title), trim(b.title)), LAMBDA comparison :
    IF order = "DESC" THEN 0 - comparison ELSE comparison)

\* Array.prototype.sort is stable: an element goes behind those that do not
\* compare greater
RECURSIVE insertSorted(_, _, _)
insertSorted(sorted, x, order) ==
  IF sorted = <<>> THEN <<x>>
  ELSE IF titleComparison(Head(sorted), x, order) <= 0
       THEN <<Head(sorted)>> \o insertSorted(Tail(sorted), x, order)
       ELSE <<x>> \o sorted

RECURSIVE sortByTitle(_, _)
sortByTitle(movieList, order) ==
  IF movieList = <<>> THEN <<>>
  ELSE insertSorted(sortByTitle(SubSeq(movieList, 1, Len(movieList) - 1), order),
                    movieList[Len(movieList)], order)

\* items.slice(offset, offset + limit)
applyPagination(items, limit, offset) ==
  SubSeq(items, offset + 1, IF offset + limit < Len(items) THEN offset + limit
                            ELSE Len(items))

\* MovieSequelizeDao.list: the results the call may give; the total counts
\* the movies of the filter; for a sort by title all movies are read, sorted
\* and sliced, else the query orders them and LIMIT and OFFSET slice
listResults(db, q) ==
  With(buildMovieWhere(db, q.title, q.search), LAMBDA where :
  With(buildActorInclude(q.actor), LAMBDA include :
  With(count(db, where, include), LAMBDA total :
    IF q.sort = "title"
    THEN {[itemList |-> applyPagination(sortByTitle(f, q.order), q.limit, q.offset),
           total |-> total] :
            f \in Orderings(findAll(db, where, include))}
    ELSE {[itemList |-> applyPagination(f, q.limit, q.offset), total |-> total] :
            f \in findAllOrdered(db, where, include, q.sort, q.order)})))

\* ListAbl.list
ListAbl_list(db, dtoIn) == listResults(db, prepareListDtoIn(dtoIn))

----------------------------------------------------------------------------
(* The state machine *)

\* the last request and its response: the operation, the error raised, the
\* ids of the movies created, whether the request named an actor not stored
\* before, the blocks of the file, how many of them stand before the first
\* rejected one, whether one is rejected, the meta of the response, and the
\* block handed to the block parser
NoResult ==
  [op |-> "none", error |-> "none", ids |-> <<>>, newNames |-> FALSE,
   blocks |-> 0, before |-> 0, rejected |-> FALSE, meta |-> NoMeta, input |-> <<>>]

Init ==
  /\ movies = {}
  /\ actors = {}
  /\ movie_actors = {}
  /\ movieSeq = 0
  /\ actorSeq = 0
  /\ last = NoResult

\* the tables after an operation
Commit(db) ==
  /\ movies' = db.movies
  /\ actors' = db.actors
  /\ movie_actors' = db.movie_actors
  /\ movieSeq' = db.movieSeq
  /\ actorSeq' = db.actorSeq

\* some name of the list is, trimmed, the name of no stored actor
NamesNotStored(db, actorNames) ==
  \E i \in 1..Len(actorNames) :
    \A a \in db.actors : a.name # trim(actorNames[i])

\* the block checks on every block of the import requests, computed once
BlockErrors == [block \in ImportBlocks |-> flushBlock(block).error]

\* the blocks that stand before the first rejected one
BlocksBefore(blocks) ==
  Cardinality({i \in 1..Len(blocks) : \A j \in 1..i : BlockErrors[blocks[j]] = "none"})

\* POST /movies
Create ==
  \E dtoIn \in CreateInputs :
    \E r \in {CreateAbl_create(Store, dtoIn)} :
      /\ r.db.movieSeq <= MaxMovies
      /\ Commit(r.db)
      /\ last' = [NoResult EXCEPT !.op = "create", !.error = r.error,
                    !.ids = IF r.error = "none" THEN <<r.id>> ELSE <<>>,
                    !.newNames = NamesNotStored(Store, dtoIn.actors)]

\* POST /movies/import
Import ==
  \E blocks \in BlockSeqs(MaxBlocks) :
    \E r \in {ImportAbl_import(Store, FileOf(blocks))} :
      /\ r.db.movieSeq <= MaxMovies
      /\ Commit(r.db)
      /\ last' = [NoResult EXCEPT !.op = "import", !.error = r.error,
                    !.ids = r.data,
                    !.blocks = Len(blocks),
                    !.before = BlocksBefore(blocks),
                    !.rejected = BlocksBefore(blocks) < Len(blocks),
                    !.meta = r.meta]

Next == Create \/ Import

Spec == Init /\ [][Next]_vars

----------------------------------------------------------------------------
(* The block parser on its own: a block is drawn, #parseMovieBlock checks   *)
(* its structure, #validateMovieBlock checks the values of a block that     *)
(* passed                                                                  *)

InitParse ==
  /\ movies = {}
  /\ actors = {}
  /\ movie_actors = {}
  /\ movieSeq = 0
  /\ actorSeq = 0
  /\ last \in {[NoResult EXCEPT !.op = "block", !.input = block] : block \in ParseBlocks}

ParseBlock ==
  /\ last.op = "block"
  /\ last' = [last EXCEPT !.op = "structure",
                          !.error = parseMovieBlock(last.input).error]
  /\ UNCHANGED <<movies, actors, movie_actors, movieSeq, actorSeq>>

ValidateBlock ==
  /\ last.op = "structure"
  /\ last.error = "none"
  /\ last' = [last EXCEPT !.op = "validated",
                          !.error = validateMovieBlock(parseMovieBlock(last.input).parsedBlock)]
  /\ UNCHANGED <<movies, actors, movie_actors, movieSeq, actorSeq>>

NextParse == ParseBlock \/ ValidateBlock

SpecParse == InitParse /\ [][NextParse]_vars

----------------------------------------------------------------------------
(* Create, bulk create, get, update and delete on one store, with          *)
(* statements the database may reject                                      *)

titleI == Str("I")

\* the create requests: one title, year and format with two actor lists
CrudCreateInputs == {CreateDto(keyA, listM), CreateDto(keyA, listMI)}

\* the batch of the bulk create: the record of a block, and the same with
\* a second actor
CrudBatch ==
  <<flushBlock(blockM).movie, [flushBlock(blockM).movie EXCEPT !.actors = listMI]>>

\* the ids of the requests: those the store may have given, and one more
CrudIds == 1..(MaxMovies + 1)

\* an actor list with a padded and a repeated name
listPaddedII == << <<" ", "I", " ">>, nameI >>

\* an update of every attribute and the actors
updateAll(id) ==
  UpdateDto(id, {"title", "year", "format", "actors"}, titleI, 2000, Str("VHS"),
            listPaddedII)

\* The update requests for an id: year, format and an actor list; an empty
\* title; an empty list; a year out of range with a list
UpdateRequests(id) ==
  { UpdateDto(id, {"year", "format", "actors"}, <<>>, 2000, Str("VHS"), listPaddedII),
    UpdateDto(id, {"title"}, <<>>, 0, <<>>, <<>>),
    UpdateDto(id, {"actors"}, <<>>, 0, <<>>, <<>>),
    UpdateDto(id, {"year", "actors"}, <<>>, 2037, <<>>, listM) }

\* and more of them: every attribute; a title; title and year; year and
\* format; a list of padded, repeated names in lower case; nothing
MoreUpdateRequests(id) ==
  UpdateRequests(id)
  \cup { updateAll(id),
         UpdateDto(id, {"title"}, titleI, 0, <<>>, <<>>),
         UpdateDto(id, {"title", "year"}, titleA, 1999, <<>>, <<>>),
         UpdateDto(id, {"year", "format"}, <<>>, 2000, Str("VHS"), <<>>),
         UpdateDto(id, {"actors"}, <<>>, 0, <<>>, listIMI),
         UpdateDto(id, {}, <<>>, 0, <<>>, <<>>) }

\* the requests and the statement the database rejects: every request with
\* none, and a request that writes in several statements with each of them
CreateCalls ==
  {<<dtoIn, "none">> : dtoIn \in CrudCreateInputs}
  \cup {<<CreateDto(keyA, listMI), fault>> : fault \in Faults}

UpdateCalls(id) ==
  {<<dtoIn, "none">> : dtoIn \in UpdateRequests(id)}
  \cup {<<updateAll(id), fault>> : fault \in Faults \ {"none"}}

\* POST /movies
CrudCreate ==
  \E call \in CreateCalls :
    \E r \in {CreateAbl_createOrThrow(Store, call[1], call[2])} :
      /\ r.db.movieSeq <= MaxMovies
      /\ Commit(r.db)
      /\ last' = [NoResult EXCEPT !.op = "create", !.error = r.error,
                    !.ids = IF r.error = "none" THEN <<r.id>> ELSE <<>>]

\* the bulk create of an import
CrudCreateMany ==
  \E fault \in Faults :
    \E r \in {createManyOrThrow(Store, CrudBatch, fault)} :
      /\ r.db.movieSeq <= MaxMovies
      /\ Commit(r.db)
      /\ last' = [NoResult EXCEPT !.op = "createMany", !.error = r.error,
                    !.ids = r.itemList]

\* GET /movies/:id
Get ==
  \E id \in CrudIds :
    \E r \in {GetAbl_get(Store, [id |-> id])} :
      /\ last' = [NoResult EXCEPT !.op = "get", !.error = r.error]
      /\ UNCHANGED <<movies, actors, movie_actors, movieSeq, actorSeq>>

\* PATCH /movies/:id
Update ==
  \E id \in CrudIds :
    \E call \in UpdateCalls(id) :
      \E r \in {UpdateAbl_update(Store, call[1], call[2])} :
        /\ Commit(r.db)
        /\ last' = [NoResult EXCEPT !.op = "update", !.error = r.error]

\* DELETE /movies/:id
Delete ==
  \E id \in CrudIds :
    \E r \in {DeleteAbl_delete(Store, [id |-> id])} :
      /\ Commit(r.db)
      /\ last' = [NoResult EXCEPT !.op = "delete", !.error = r.error]

NextCrud == CrudCreate \/ CrudCreateMany \/ Get \/ Update \/ Delete

SpecCrud == Init /\ [][NextCrud]_vars

----------------------------------------------------------------------------
(* List requests on a store that creates have filled *)

nameMI == <<"M", "I">>
nameYIa == <<"YI", "a">>
titleAM == <<"A", "M">>

\* the movies of the store, in the order of their creation: two with the
\* same title, two with the same year, Latin and Cyrillic letters in titles
\* and names
ListMovies ==
  << [title |-> titleAM, year |-> 2000, format |-> Str("DVD"), actors |-> <<nameMI>>],
     [title |-> nameYIa, year |-> 1999, format |-> Str("DVD"),
      actors |-> <<nameYIa, nameI>>],
     [title |-> titleAM, year |-> 1999, format |-> Str("VHS"), actors |-> <<nameMI>>],
     [title |-> <<"a", "m">>, year |-> 2000, format |-> Str("DVD"),
      actors |-> <<Str("yi")>>] >>

EmptyStore ==
  [movies |-> {}, actors |-> {}, movie_actors |-> {}, movieSeq |-> 0, actorSeq |-> 0]

\* the store after the creates of the first n movies
RECURSIVE StoreAfter(_)
StoreAfter(n) ==
  IF n = 0 THEN EmptyStore
  ELSE CreateAbl_create(StoreAfter(n - 1), ListMovies[n]).db

\* the stores of the list requests, computed once
ListStores == [n \in 0..(MaxMovies + 1) |-> StoreAfter(n)]

\* the filters of a request: title, actor and search, each one alone, in
\* either case, padded, in Latin and Cyrillic letters, with the characters
\* % and _, and some of them together; an empty string stands for none
ListFilters ==
  {[title |-> t, actor |-> <<>>, search |-> <<>>] :
     t \in {<<>>, Str("a"), <<" ", "M", " ">>, Str("YI"), Str("i"), Str("_"), Str("%")}}
  \cup {[title |-> <<>>, actor |-> a, search |-> <<>>] :
          a \in {Str("i"), <<" ", "M">>, Str("YI"), Str("A"), Str("_")}}
  \cup {[title |-> <<>>, actor |-> <<>>, search |-> s] :
          s \in {Str("yi"), Str("I"), Str("_")}}
  \cup {[title |-> Str("m"), actor |-> Str("i"), search |-> <<>>],
        [title |-> <<>>, actor |-> Str("m"), search |-> Str("yi")],
        [title |-> Str("a"), actor |-> <<>>, search |-> Str("i")],
        [title |-> Str("yi"), actor |-> <<>>, search |-> Str("a")]}

\* sort and order, each as the request gives it or left out
ListSorts ==
  {[sort |-> s, order |-> o] : s \in {"id", "year", "title"}, o \in {"ASC", "DESC"}}
  \cup {[sort |-> "", order |-> ""]}

\* limit and offset, each as the request gives it or left out (0)
ListPages == {[limit |-> l, offset |-> o] : l \in {0, 1, 2}, o \in {0, 1, 3}}

ListDto(f, s, p) ==
  [title |-> f.title, actor |-> f.actor, search |-> f.search,
   sort |-> s.sort, order |-> s.order, limit |-> p.limit, offset |-> p.offset]

InitList ==
  /\ \E n \in DOMAIN ListStores :
       /\ movies = ListStores[n].movies
       /\ actors = ListStores[n].actors
       /\ movie_actors = ListStores[n].movie_actors
       /\ movieSeq = ListStores[n].movieSeq
       /\ actorSeq = ListStores[n].actorSeq
  /\ last = NoResult

\* GET /movies: the request, the ids of the items and the total. A list
\* leaves the store as it is, so one request from each store is all there is
\* to see.
List ==
  /\ last.op = "none"
  /\ \E f \in ListFilters, s \in ListSorts, p \in ListPages :
       \E r \in ListAbl_list(Store, ListDto(f, s, p)) :
         /\ last' = [NoResult EXCEPT !.op = "list",
                       !.input = ListDto(f, s, p),
                       !.ids = [i \in 1..Len(r.itemList) |-> r.itemList[i].id],
                       !.meta = [NoMeta EXCEPT !.total = r.total]]
         /\ UNCHANGED <<movies, actors, movie_actors, movieSeq, actorSeq>>

NextList == List

SpecList == InitList /\ [][NextList]_vars

----------------------------------------------------------------------------
(* #sortByTitle on its own: a list of movies and an order are drawn, and    *)
(* the list is sorted                                                       *)

\* the titles of the movies to sort: the same letters in either case, padded,
\* a prefix of another, Cyrillic letters in either case, and none
SortTitles ==
  {titleAM, <<"a", "m">>, <<" ", "a", "m">>, Str("A"), Str("YI"), Str("yi"), <<>>}

\* the lists of movies, each with its position as its id
SortLists ==
  UNION {{[i \in 1..k |-> [id |-> i, title |-> f[i]]] : f \in [1..k -> SortTitles]} :
           k \in 0..(MaxMovies + 1)}

InitSort ==
  /\ movies = {}
  /\ actors = {}
  /\ movie_actors = {}
  /\ movieSeq = 0
  /\ actorSeq = 0
  /\ last \in {[NoResult EXCEPT !.op = "movies",
                  !.input = [movieList |-> l, order |-> o]] :
                 l \in SortLists, o \in {"ASC", "DESC"}}

\* movies = this.#sortByTitle(movies, order): the sorted list is a new one,
\* the list handed in stays as it is
SortByTitle ==
  /\ last.op = "movies"
  /\ \E sorted \in {sortByTitle(last.input.movieList, last.input.order)} :
       last' = [last EXCEPT !.op = "sorted",
                            !.ids = [i \in 1..Len(sorted) |-> sorted[i].id]]
  /\ UNCHANGED <<movies, actors, movie_actors, movieSeq, actorSeq>>

NextSort == SortByTitle

SpecSort == InitSort /\ [][NextSort]_vars

(* Two create requests in flight: each awaits its duplicate check, then the *)
(* transaction of the DAO; the two awaits of one request are separate steps *)
(* and the steps of the other may run between them                          *)

\* the requests: two lists with the same names in another order and case,
\* and a list with other names
RaceInputs == {CreateDto(keyA, listMI), CreateDto(keyA, listIMI), CreateDto(keyA, listM)}

\* a create that looks for a duplicate once more inside its transaction
MovieDao_createInFlight_checkAgain(db, dtoIn, fault) ==
  CreateAbl_createOrThrow(db, dtoIn, fault)

\* this.movieDao.create(MovieDto.prepareCreateDtoIn(dtoIn)) of a request
\* whose check has passed
MovieDao_createInFlight(db, dtoIn, fault) ==
  MovieDao_createOrThrow(db, prepareCreateDtoIn(dtoIn), fault)

\* both requests before their first await
InitRace ==
  /\ movies = {}
  /\ actors = {}
  /\ movie_actors = {}
  /\ movieSeq = 0
  /\ actorSeq = 0
  /\ last \in {[NoResult EXCEPT !.op = "race",
                  !.input = [p \in 1..2 |-> [dtoIn |-> d[p], pc |-> "start",
                                             error |-> "none", id |-> 0]]] :
                 d \in [1..2 -> RaceInputs]}

\* await this.#ensureNoDuplicate(dtoIn): the request reads the store and
\* throws or goes on
RaceCheck ==
  \E p \in 1..2 :
    /\ last.input[p].pc = "start"
    /\ \E duplicate \in {ensureNoDuplicate(Store, last.input[p].dtoIn)} :
         last' = [last EXCEPT !.input[p].pc =
                                 IF duplicate = "none" THEN "checked" ELSE "rejected",
                              !.input[p].error = duplicate]
    /\ UNCHANGED <<movies, actors, movie_actors, movieSeq, actorSeq>>

\* await this.movieDao.create(...): the transaction of the DAO, which the
\* database may reject
RaceInsert ==
  \E p \in 1..2, fault \in {"none", "movie"} :
    /\ last.input[p].pc = "checked"
    /\ \E r \in {MovieDao_createInFlight(Store, last.input[p].dtoIn, fault)} :
         /\ Commit(r.db)
         /\ last' = [last EXCEPT !.input[p].pc =
                                    IF r.error = "none" THEN "created" ELSE "failed",
                                 !.input[p].error = r.error,
                                 !.input[p].id = r.id]

NextRace == RaceCheck \/ RaceInsert

SpecRace == InitRace /\ [][NextRace]_vars

(* #parseMoviesFile on its own: a file of blocks, each sound or with one or *)
(* more defects, is drawn and parsed                                        *)

\* the blocks of the files: a sound one; a year out of range; a year out of
\* range and a format not in the list; a format not in the list, no star and
\* no title; no star and no title; no title; three lines without a Stars
\* line; four lines without a Stars line and a year out of range
FileBlocks ==
  { blockM,
    blockYear1894,
    Block(titleA, Str("1894"), Str("dvd"), starsM),
    Block(<<>>, Str("1999"), Str("dvd"), Str(",")),
    Block(<<>>, Str("1999"), Str("DVD"), Str(",")),
    Block(<<>>, Str("1999"), Str("DVD"), starsM),
    blockThreeLines,
    << blockM[1], blockM[1], blockYear1894[2], blockM[3] >> }

InitFile ==
  /\ movies = {}
  /\ actors = {}
  /\ movie_actors = {}
  /\ movieSeq = 0
  /\ actorSeq = 0
  /\ last \in {[NoResult EXCEPT !.op = "file", !.input = blocks, !.blocks = Len(blocks)] :
                 blocks \in UNION {[1..k -> FileBlocks] : k \in 0..MaxBlocks}}

\* this.#parseMoviesFile(dtoIn.file): the error thrown and the number of
\* records collected before it
ParseFile ==
  /\ last.op = "file"
  /\ \E parsed \in {parseMoviesFile(FileOf(last.input))} :
       last' = [last EXCEPT !.op = "parsed",
                            !.error = parsed.error,
                            !.before = Len(parsed.movies),
                            !.rejected = parsed.error # "none"]
  /\ UNCHANGED <<movies, actors, movie_actors, movieSeq, actorSeq>>

NextFile == ParseFile

SpecFile == InitFile /\ [][NextFile]_vars

(* Properties *)

\* the trimmed, lowercased names of a list of actor names, as a set
NameSet(actorNames) == {toLowerCase(trim(actorNames[i])) : i \in 1..Len(actorNames)}

\* the trimmed, lowercased names of the actors of a persisted movie
NameSetOfMovie(db, m) == {toLowerCase(trim(a.name)) : a \in ActorsOf(db, m.id)}

\* the names of the actors of a persisted movie, as stored
ActorNamesOf(db, movieId) == {a.name : a \in ActorsOf(db, movieId)}

\* actor lists in several orders, cases and paddings, some with a repeated name
ListVariants ==
  {listM, listMI, listIMI, <<nameI, nameM>>, <<namePaddedLowerM>>,
   <<namePaddedLowerM, nameM>>}

\* the create requests with the title, year and format of a persisted movie
\* and a list whose name set is the movie's
EquivalentCreates(db, m) ==
  {CreateDto([title |-> m.title, year |-> Number(m.year).v, format |-> m.format], l) :
     l \in {x \in ListVariants : NameSet(x) = NameSetOfMovie(db, m)}}

\* a persisted movie has the title, year and format of the create request
\* and its name set
PersistedTwin(db, dtoIn) ==
  \E m \in db.movies :
    /\ m.title = dtoIn.title
    /\ m.year = toString(dtoIn.year)
    /\ m.format = dtoIn.format
    /\ NameSetOfMovie(db, m) = NameSet(dtoIn.actors)

C3_RejectedCreateWritesNothing ==
  \A k \in {keyA} \cup OtherKeys :
    \A l \in ListVariants :
      LET r == CreateAbl_create(Store, CreateDto(k, l))
      IN r.error = "movieAlreadyExists"
           => /\ r.db.movies = movies
              /\ r.db.actors = actors
              /\ r.db.movie_actors = movie_actors

\* a create was rejected as a duplicate, it named actors that were not
\* stored, and no actor row carries one of those names
C3_Witness ==
  /\ last.op = "create"
  /\ last.error = "movieAlreadyExists"
  /\ last.newNames
  /\ \A a \in actors : a.name \in {nameM, nameI}

\* the records of the bulk create: the ones the parser makes of the blocks
BulkRecords == {flushBlock(block).movie : block \in {blockM, blockIMI, blockBars}}

BulkBatches == UNION {[1..k -> BulkRecords] : k \in 1..MaxBlocks}

\* the persisted movie has the title, year, format and name set of the record
SameMovie(db, m, c) ==
  /\ m.title = c.title
  /\ m.year = c.year
  /\ m.format = c.format
  /\ NameSetOfMovie(db, m) = NameSet(c.actors)

TwinsOf(db, c) == {m \in db.movies : SameMovie(db, m, c)}

\* C4: in every batch, a record with a persisted twin (same title, year,
\* format and name set) is not inserted and is counted in skipped, and a
\* record without one is inserted.
C4_BulkSkipsPersistedTwins ==
  \A batch \in BulkBatches :
    LET r == createMany(Store, batch)
    IN r.error = "none"
         => /\ r.skipped =
                 Cardinality({i \in 1..Len(batch) : TwinsOf(Store, batch[i]) # {}})
            /\ \A i \in 1..Len(batch) :
                 IF TwinsOf(Store, batch[i]) # {}
                 THEN TwinsOf(r.db, batch[i]) = TwinsOf(Store, batch[i])
                 ELSE TwinsOf(r.db, batch[i]) # {}

\* C5: no two persisted movies have the same title, year and format and the
\* same trimmed, lowercased name set.
C5_NoTwoTwins ==
  \A m1, m2 \in movies :
    m1.id # m2.id
      => ~( /\ m1.title = m2.title
            /\ m1.year = m2.year
            /\ m1.format = m2.format
            /\ NameSetOfMovie(Store, m1) = NameSetOfMovie(Store, m2) )

\* C6: after a successful import of a file of n records, imported plus
\* duplicates is n, imported is the number of movie rows the call added and
\* total is the number of movie rows there are.
C6_ImportMetaCounts ==
  [][ (last'.op = "import" /\ last'.error = "none")
        => /\ last'.meta.imported + last'.meta.duplicates = last'.blocks
           /\ last'.meta.imported = Cardinality(movies' \ movies)
           /\ last'.meta.total = Cardinality(movies') ]_vars

\* an import of two records, both duplicates
C6_Witness ==
  /\ last.op = "import"
  /\ last.error = "none"
  /\ last.blocks = 2
  /\ last.meta.imported = 0
  /\ last.meta.duplicates = 2

NameStartsLine(line, field) == startsWith(toLowerCase(line), toLowerCase(<<field, ":">>))

FieldNames == {"Title", "Release Year", "Format", "Stars"}

MissingNames(block) ==
  {field \in FieldNames : \A i \in 1..Len(block) : ~NameStartsLine(block[i], field)}

\* C8: the structure check raises invalidFileContent for a block whose line
\* count is not 4, moviesMissingRequiredFields for a block of 4 lines in
\* which one of the four field names starts no line, and accepts the others.
C8_BlockStructureErrors ==
  last.op = "structure"
    => last.error =
         IF Len(last.input) # 4 THEN "invalidFileContent"
         ELSE IF MissingNames(last.input) # {} THEN "moviesMissingRequiredFields"
              ELSE "none"

\* the structure check accepted a block whose lines are in the reverse
\* order and whose title line spells the name in capitals
C8_Witness ==
  /\ last.op = "structure"
  /\ last.error = "none"
  /\ last.input[1][1] = "Stars"
  /\ last.input[4][1] = "TITLE"

\* the text is the decimal numeral of an integer from 1895 to the current
\* year plus ten
YearInRange(text) ==
  /\ Len(text) = 1
  /\ text[1] \in Digits
  /\ DigitsValue(text[1]) >= 1895
  /\ DigitsValue(text[1]) <= CurrentYear + 10

\* the trimmed, non-empty items of a comma-separated list
StarsNames(stars) == {trim(item) : item \in Range(split(stars, ","))} \ {<<>>}

\* a defect of the format, the stars or the title
OtherDefect(textBlock) ==
  \/ textBlock.format \notin {Str("VHS"), Str("DVD"), Str("Blu-Ray"), Str("Digital")}
  \/ StarsNames(textBlock.stars) = {}
  \/ \E name \in StarsNames(textBlock.stars) :
       length(name) > 255 \/ \E i \in 1..Len(name) : ~IsNameAtom(name[i])
  \/ length(textBlock.title) = 0
  \/ length(textBlock.title) > 255

\* C9: of a block that passed the structure check, a release year that is
\* not an integer in range raises invalidInputData when nothing else is
\* wrong, a defect of the format, the stars or the title raises
\* invalidFileContent when the year is right, and a block without a defect
\* is accepted.
C9_FieldValueErrors ==
  last.op = "validated"
    => LET textBlock == parseMovieBlock(last.input).parsedBlock
       IN /\ (~YearInRange(textBlock.releaseYear) /\ ~OtherDefect(textBlock))
               => last.error = "invalidInputData"
          /\ (YearInRange(textBlock.releaseYear) /\ OtherDefect(textBlock))
               => last.error = "invalidFileContent"
          /\ (YearInRange(textBlock.releaseYear) /\ ~OtherDefect(textBlock))
               => last.error = "none"

\* the files of accepted blocks
AcceptedBlockSeqs ==
  {blocks \in BlockSeqs(MaxBlocks) :
     \A i \in 1..Len(blocks) : BlockErrors[blocks[i]] = "none"}

\* the Stars value of a block in the order of the file format
StarsValue(block) == SubSeq(block[4], 3, Len(block[4]))

C11_SearchTitleIsLowercasedTitle ==
  \A m \in movies : m.searchTitle = toLowerCase(m.title)

\* the distinct trimmed names of a list
TrimmedNames(actorNames) == {trim(actorNames[i]) : i \in 1..Len(actorNames)}

\* the rows of movie_actors of a movie
LinksOf(db, movieId) == {l \in db.movie_actors : l.movieId = movieId}

\* C12: a successful update with a non-empty actor list leaves the movie
\* with exactly one actor for each distinct trimmed name of the list and no
\* other; with an empty list or none it leaves the movie's associations as
\* they were.
C12_UpdateReplacesActors ==
  \A id \in CrudIds :
    \A dtoIn \in MoreUpdateRequests(id) :
      LET r == UpdateAbl_update(Store, dtoIn, "none")
      IN r.error = "none"
           => IF "actors" \in dtoIn.given /\ Len(dtoIn.actors) > 0
              THEN /\ ActorNamesOf(r.db, id) = TrimmedNames(dtoIn.actors)
                   /\ Cardinality(ActorsOf(r.db, id))
                        = Cardinality(TrimmedNames(dtoIn.actors))
              ELSE LinksOf(r.db, id) = LinksOf(Store, id)

\* an update has given a movie the one actor of its list, and the actor the
\* movie had before is still stored
C12_Witness ==
  /\ last.op = "update"
  /\ last.error = "none"
  /\ \E m \in movies :
       /\ m.year = SqlInteger(2000)
       /\ ActorNamesOf(Store, m.id) = {nameI}
       /\ \E a \in actors : a.name = nameM /\ a \notin ActorsOf(Store, m.id)

\* C13: a successful update leaves each of title, year and format that the
\* input lacks as it was, leaves every other movie row as it was, and
\* returns the entity a get of the id returns afterwards.
C13_UpdateChangesOnlyGiven ==
  \A m \in movies :
    \A dtoIn \in MoreUpdateRequests(m.id) :
      LET r == UpdateAbl_update(Store, dtoIn, "none")
      IN r.error = "none"
           => /\ \E n \in r.db.movies :
                   /\ n.id = m.id
                   /\ "title" \notin dtoIn.given => n.title = m.title
                   /\ "year" \notin dtoIn.given => n.year = m.year
                   /\ "format" \notin dtoIn.given => n.format = m.format
              /\ {x \in r.db.movies : x.id # m.id} = {x \in movies : x.id # m.id}
              /\ r.data = GetAbl_get(r.db, [id |-> m.id]).data

\* an update has changed the year and the format of one movie and left its
\* title, and another movie is stored as it was created
C13_Witness ==
  /\ last.op = "update"
  /\ last.error = "none"
  /\ \E m, x \in movies :
       /\ m.id # x.id
       /\ m.title = titleA
       /\ m.year = SqlInteger(2000)
       /\ m.format = Str("VHS")
       /\ x.year = SqlInteger(1999)

\* C14: with an id no persisted movie has, get, update and delete each fail
\* with MovieDoesNotExist, status 404, and update and delete leave the
\* movie, actor and association rows and the counters as they were, also
\* for an update with a non-empty actor list.
C14_UnknownIdNotFound ==
  \A id \in CrudIds :
    (\A m \in movies : m.id # id)
      => /\ MovieDoesNotExist.statusCode = 404
         /\ GetAbl_get(Store, [id |-> id]).error = MovieDoesNotExist.code
         /\ \A dtoIn \in MoreUpdateRequests(id), fault \in Faults :
              LET r == UpdateAbl_update(Store, dtoIn, fault)
              IN r.error = MovieDoesNotExist.code /\ r.db = Store
         /\ LET d == DeleteAbl_delete(Store, [id |-> id])
            IN d.error = MovieDoesNotExist.code /\ d.db = Store

\* an update has failed with MovieDoesNotExist in a store that has movies
\* and actors, and the id of a deleted movie is among the unknown ones
C14_Witness ==
  /\ last.op = "update"
  /\ last.error = MovieDoesNotExist.code
  /\ movies # {}
  /\ actors # {}
  /\ \E id \in 1..movieSeq : \A m \in movies : m.id # id

\* what delete does to a store that has the movie
DeleteRemovesExactly(m) ==
  LET d == DeleteAbl_delete(Store, [id |-> m.id])
  IN /\ d.error = "none"
     /\ d.db.movies = movies \ {m}
     /\ d.db.movie_actors = movie_actors \ LinksOf(Store, m.id)
     /\ d.db.actors = actors
     /\ d.db.movieSeq = movieSeq
     /\ GetAbl_get(d.db, [id |-> m.id]).error = MovieDoesNotExist.code

\* C15: delete of a persisted movie removes its row and its association
\* rows and nothing else, every actor row stays, a get of the id then fails
\* with MovieDoesNotExist, and no later request gives the id of a movie that
\* is gone to a movie again.
C15_DeleteRemovesMovieAndLinks ==
  /\ [](\A m \in movies : DeleteRemovesExactly(m))
  /\ [][\A id \in 1..movieSeq :
          (\A m \in movies : m.id # id) => (\A m \in movies' : m.id # id)]_vars

\* a delete has left an actor without a movie, and another movie is stored
\* with its actors
C15_Witness ==
  /\ last.op = "delete"
  /\ last.error = "none"
  /\ \E a \in actors : \A l \in movie_actors : l.actorId # a.id
  /\ \E m \in movies : ActorsOf(Store, m.id) # {}

\* C16: when a statement of create or update throws after the callback has
\* started, the caller gets that error and the movie, actor and association
\* rows and the counters are those before the call.
C16_CreateAndUpdateAtomic ==
  /\ \A dtoIn \in CrudCreateInputs, fault \in Faults :
       LET s == createSteps(Store, prepareCreateDtoIn(dtoIn), fault)
       IN (s.error # "none" /\ ensureNoDuplicate(Store, dtoIn) = "none")
            => LET r == CreateAbl_createOrThrow(Store, dtoIn, fault)
               IN r.error = s.error /\ r.db = Store
  /\ \A m \in movies :
       \A dtoIn \in UpdateRequests(m.id), fault \in Faults :
         LET s == updateSteps(Store, dtoIn, fault)
         IN s.error # "none"
              => LET r == UpdateAbl_update(Store, dtoIn, fault)
                 IN r.error = s.error /\ r.db = Store

\* an update has failed the validation of movie.update, after the actor
\* replacement of the same call had written
C16_Witness ==
  /\ last.op = "update"
  /\ last.error = "SequelizeValidationError"
  /\ \E m \in movies :
       \E dtoIn \in UpdateRequests(m.id) :
         /\ updateSteps(Store, dtoIn, "none").error = "SequelizeValidationError"
         /\ updateSteps(Store, dtoIn, "none").db # Store

\* the batches of the bulk create: the batch of two records and each record
\* alone
CrudBatches == {CrudBatch, <<CrudBatch[1]>>, <<CrudBatch[2]>>}

\* C17: when a statement of the insert phase of createMany throws (the
\* actor rows, the movie rows or the association rows), the caller gets the
\* error and no movie, actor or association row of the batch is kept.
C17_CreateManyAllOrNothing ==
  \A batch \in CrudBatches, fault \in Faults \ {"none"} :
    LET r == createManyOrThrow(Store, batch, fault)
    IN Len(filterDuplicates(Store, batch).result) > 0
         => r.error = "SequelizeDatabaseError" /\ r.db = Store

\* a bulk create has failed on a statement before which the same call had
\* inserted movie rows
C17_Witness ==
  /\ last.op = "createMany"
  /\ last.error = "SequelizeDatabaseError"
  /\ \E fault \in Faults :
       LET unique == filterDuplicates(Store, CrudBatch).result
           s == insertUniqueSteps(Store, unique, Len(CrudBatch), fault)
       IN Len(unique) > 0 /\ s.error # "none" /\ s.db.movies # movies

\* the movies a list request filters in: those of the WHERE clause that,
\* when an actor is asked for, have an actor the join keeps
Filtered(db, q) ==
  {m \in db.movies :
     /\ whereHolds(buildMovieWhere(db, q.title, q.search), m)
     /\ q.actor # <<>> => includedActors(db, buildActorInclude(q.actor), m) # {}}

\* the key of a movie in the order asked for: id, year as a number, or, for
\* title, the number of movies whose title the collator puts before its own
SortKey(db, q, m) ==
  CASE q.sort = "id" -> m.id
    [] q.sort = "year" -> DigitsValue(m.year[1])
    [] OTHER -> Cardinality({x \in db.movies :
                               collatorCompare(trim(x.title), trim(m.title)) < 0})

\* the sequences of ids that list all filtered movies in the order asked for
FullLists(db, q) ==
  {f \in [1..Cardinality(Filtered(db, q)) -> {m.id : m \in Filtered(db, q)}] :
     /\ \A i, j \in DOMAIN f : f[i] = f[j] => i = j
     /\ \A i, j \in DOMAIN f :
          i < j =>
            \A x, y \in db.movies :
              (x.id = f[i] /\ y.id = f[j])
                => IF q.order = "DESC" THEN SortKey(db, q, x) >= SortKey(db, q, y)
                   ELSE SortKey(db, q, x) <= SortKey(db, q, y)}

\* positions offset to offset + limit - 1 of a list, counted from 0
PageOf(full, limit, offset) ==
  [i \in 1..(IF Len(full) - offset < 0 THEN 0
             ELSE IF Len(full) - offset < limit THEN Len(full) - offset
             ELSE limit) |-> full[offset + i]]

\* C18: the total of a list is the number of movies the filters let in,
\* whatever limit and offset are, and the items are positions offset to
\* offset + limit - 1 of a list of all those movies in the order asked for,
\* for a sort by id, by year and by title.
C18_ListTotalAndPage ==
  last.op = "list"
    => LET q == prepareListDtoIn(last.input)
       IN /\ last.meta.total = Cardinality(Filtered(Store, q))
          /\ \E full \in FullLists(Store, q) :
               last.ids = PageOf(full, q.limit, q.offset)

\* a list sorted by title has answered with the second of three movies and
\* a total of three
C18_Witness ==
  /\ last.op = "list"
  /\ last.input.sort = "title"
  /\ last.input.limit = 1
  /\ last.input.offset = 1
  /\ last.meta.total = 3
  /\ Len(last.ids) = 1

\* sub is a run of consecutive characters of s
Contains(s, sub) ==
  \E i \in 0..(Len(s) - Len(sub)) : SubSeq(s, i + 1, i + Len(sub)) = sub

\* some actor of the movie has a lowercased name that contains the trimmed,
\* lowercased text
ActorContains(db, m, text) ==
  \E a \in ActorsOf(db, m.id) : Contains(toLowerCase(a.name), toLowerCase(trim(text)))

\* the lowercased title of the movie contains the trimmed, lowercased text
TitleContains(m, text) == Contains(toLowerCase(m.title), toLowerCase(trim(text)))

\* the condition of title and search on a movie: none of the two given, or
\* the title contains the text given (the title filter if there is one), or
\* an actor contains the search text
TitleOrSearchHolds(db, m, q) ==
  \/ q.title = <<>> /\ q.search = <<>>
  \/ TitleContains(m, IF q.title # <<>> THEN q.title ELSE q.search)
  \/ q.search # <<>> /\ ActorContains(db, m, q.search)

\* the ids of the movies a list without paging returns: the first page of
\* the default size holds every movie of the store
IsWholeList(q) == q.offset = 0 /\ q.limit = 0

\* C19: a list with an actor filter counts and returns exactly the movies
\* that have an actor whose lowercased name contains the trimmed, lowercased
\* filter and that meet the title or search condition, if there is one.
C19_ActorFilterBySubstring ==
  (last.op = "list" /\ last.input.actor # <<>>)
    => LET matching == {m \in movies : /\ ActorContains(Store, m, last.input.actor)
                                       /\ TitleOrSearchHolds(Store, m, last.input)}
       IN /\ last.meta.total = Cardinality(matching)
          /\ {last.ids[i] : i \in 1..Len(last.ids)} \subseteq {m.id : m \in matching}
          /\ IsWholeList(last.input)
               => {last.ids[i] : i \in 1..Len(last.ids)} = {m.id : m \in matching}

\* C20: a list with a title filter and no other counts and returns exactly
\* the movies whose lowercased title contains the trimmed, lowercased filter.
C20_TitleFilterBySubstring ==
  (last.op = "list" /\ last.input.title # <<>>
     /\ last.input.actor = <<>> /\ last.input.search = <<>>)
    => LET matching == {m \in movies : TitleContains(m, last.input.title)}
       IN /\ last.meta.total = Cardinality(matching)
          /\ {last.ids[i] : i \in 1..Len(last.ids)} \subseteq {m.id : m \in matching}
          /\ IsWholeList(last.input)
               => {last.ids[i] : i \in 1..Len(last.ids)} = {m.id : m \in matching}

\* the ids of the items of the last answer
LastIds == {last.ids[i] : i \in 1..Len(last.ids)}

\* C21: a list with a search term and no other filter counts and returns
\* exactly the movies whose lowercased title contains the trimmed, lowercased
\* term or that have an actor whose lowercased name contains it.
C21_SearchByTitleOrActor ==
  (last.op = "list" /\ last.input.search # <<>>
     /\ last.input.title = <<>> /\ last.input.actor = <<>>)
    => LET matching == {m \in movies : \/ TitleContains(m, last.input.search)
                                       \/ ActorContains(Store, m, last.input.search)}
       IN /\ last.meta.total = Cardinality(matching)
          /\ LastIds \subseteq {m.id : m \in matching}
          /\ IsWholeList(last.input) => LastIds = {m.id : m \in matching}

\* C23: a list with a title filter and a search term, and no actor filter,
\* counts and returns exactly the movies whose title contains the filter, or
\* whose title contains the term, or that have an actor whose name contains
\* the term.
C23_TitleOrSearch ==
  (last.op = "list" /\ last.input.search # <<>>
     /\ last.input.title # <<>> /\ last.input.actor = <<>>)
    => LET matching == {m \in movies : \/ TitleContains(m, last.input.title)
                                       \/ TitleContains(m, last.input.search)
                                       \/ ActorContains(Store, m, last.input.search)}
       IN /\ last.meta.total = Cardinality(matching)
          /\ LastIds \subseteq {m.id : m \in matching}
          /\ IsWholeList(last.input) => LastIds = {m.id : m \in matching}

\* the trimmed title of the movie at position i of the sorted list
SortedTitle(i) == trim(last.input.movieList[last.ids[i]].title)

\* title x has an upper case letter where title y has the same letter in
\* lower case, and the two are equal elsewhere
UpperVariantOf(x, y) ==
  /\ Len(x) = Len(y)
  /\ \E k \in 1..Len(x) :
       /\ IsUpperAtom(x[k])
       /\ y[k] = LowerAtom(x[k])
       /\ y[k] # x[k]
       /\ \A i \in 1..Len(x) : i # k => x[i] = y[i]

\* C22: the list sorted by title is a permutation of the list handed in;
\* each adjacent pair of it is in non-decreasing order of the collator on the
\* trimmed titles for ASC, non-increasing for DESC; for ASC a title with an
\* upper case letter stands before the title that differs by that letter in
\* lower case alone; sorting the sorted list gives the same list; and the
\* list handed in is left as it was.
C22_SortByTitle ==
  /\ [](last.op = "sorted"
          => /\ Len(last.ids) = Len(last.input.movieList)
             /\ Range(last.ids) = DOMAIN last.input.movieList
             /\ \A i \in 1..(Len(last.ids) - 1) :
                  IF last.input.order = "DESC"
                  THEN collatorCompare(SortedTitle(i), SortedTitle(i + 1)) >= 0
                  ELSE collatorCompare(SortedTitle(i), SortedTitle(i + 1)) <= 0
             /\ \A i, j \in 1..Len(last.ids) :
                  (last.input.order = "ASC" /\ UpperVariantOf(SortedTitle(i), SortedTitle(j)))
                    => i < j
             /\ LET sorted == [i \in 1..Len(last.ids) |-> last.input.movieList[last.ids[i]]]
                IN sortByTitle(sorted, last.input.order) = sorted)
  /\ [][last'.input = last.input]_vars

\* three movies are sorted in ascending order: the title in lower case was
\* first in the list handed in and is last in the sorted list, behind the
\* same title in upper case and a shorter one
C22_Witness ==
  /\ last.op = "sorted"
  /\ last.input.order = "ASC"
  /\ Len(last.ids) = 3
  /\ last.input.movieList[1].title = <<" ", "a", "m">>
  /\ last.input.movieList[2].title = titleAM
  /\ last.input.movieList[3].title = Str("A")
  /\ last.ids = <<3, 2, 1>>

\* actor lists to resolve: one name, two names, names padded and repeated,
\* a name in both cases, and none
ResolveLists ==
  {listM, listMI, listIMI, listPaddedII, <<nameI, nameLowerI>>, <<>>}

\* C24: resolving a list of names leaves the stored actor rows as they are,
\* adds exactly one row, with an id of its own and searchName the lowercased
\* name, for each distinct trimmed name that is the name of no stored row,
\* none for a stored name, and returns a mapping from every distinct trimmed
\* name to the row of that name; a name that differs from a stored one in
\* case alone gets a row of its own.
C24_ResolveCreatesMissingActors ==
  \A actorNames \in ResolveLists :
    LET r == resolveActorsByNames(Store, actorNames)
        wanted == TrimmedNames(actorNames)
        stored == {a.name : a \in actors}
        created == r.db.actors \ actors
    IN /\ actors \subseteq r.db.actors
       /\ {a.name : a \in created} = wanted \ stored
       /\ Cardinality(created) = Cardinality(wanted \ stored)
       /\ \A a \in created :
            /\ a.searchName = toLowerCase(a.name)
            /\ \A b \in r.db.actors : b.id = a.id => b = a
       /\ DOMAIN r.actorMap = wanted
       /\ \A name \in wanted :
            r.actorMap[name] \in r.db.actors /\ r.actorMap[name].name = name
       /\ r.db.movies = movies /\ r.db.movie_actors = movie_actors

\* a second create has named a stored actor and a new one: the first row is
\* linked to both movies and one row was added for the new name
C24_Witness ==
  /\ last.op = "create"
  /\ last.error = "none"
  /\ last.ids = <<2>>
  /\ actors = {[id |-> 1, name |-> nameM, searchName |-> Str("m")],
               [id |-> 2, name |-> nameI, searchName |-> Str("i")]}
  /\ {l.actorId : l \in LinksOf(Store, 1)} = {1}
  /\ {l.actorId : l \in LinksOf(Store, 2)} = {1, 2}

\* the create request for a record of the bulk create: the year a number
SingleCreateOf(c) ==
  [title |-> c.title, year |-> DigitsValue(c.year[1]), format |-> c.format,
   actors |-> c.actors]

\* C25: on every store, the bulk filter of createMany removes a candidate
\* record exactly when a single create of the same record would fail with
\* MovieAlreadyExists, for every title, one with the character | included.
C25_BulkAgreesWithSingle ==
  \A c \in BulkRecords :
    LET f == filterDuplicates(Store, <<c>>)
    IN f.error = "none"
         => (f.result = <<>>
               <=> ensureNoDuplicate(Store, SingleCreateOf(c)) = "movieAlreadyExists")

\* the two requests name the same logical movie
SameRequest(a, b) ==
  /\ a.title = b.title
  /\ a.year = b.year
  /\ a.format = b.format
  /\ NameSet(a.actors) = NameSet(b.actors)

\* C26: nothing guards the duplicate check of create against another create
\* in flight: a request whose check has passed is never turned down as a
\* duplicate afterwards, and when two requests for the same logical movie
\* have both passed their checks and inserted, two movies with the same
\* title, year, format and normalized actor set are persisted.
C26_CreateRaceAdmitsDuplicates ==
  last.op = "race"
    => /\ \A p \in 1..2 :
            last.input[p].pc \in {"checked", "created", "failed"}
              => last.input[p].error # "movieAlreadyExists"
       /\ (/\ SameRequest(last.input[1].dtoIn, last.input[2].dtoIn)
           /\ last.input[1].pc = "created"
           /\ last.input[2].pc = "created")
            => /\ last.input[1].id # last.input[2].id
               /\ \A p \in 1..2 :
                    \E m \in movies :
                      /\ m.id = last.input[p].id
                      /\ m.title = last.input[1].dtoIn.title
                      /\ m.year = SqlInteger(last.input[1].dtoIn.year)
                      /\ m.format = last.input[1].dtoIn.format
                      /\ NameSetOfMovie(Store, m) = NameSet(last.input[1].dtoIn.actors)

\* both requests, with the same names in another order and case, have read
\* the empty store before either inserted, and both have inserted
C26_Witness ==
  /\ last.op = "race"
  /\ last.input[1].dtoIn.actors = listMI
  /\ last.input[2].dtoIn.actors = listIMI
  /\ last.input[1].pc = "created"
  /\ last.input[2].pc = "created"
  /\ Cardinality(movies) = 2
  /\ \A m \in movies : NameSetOfMovie(Store, m) = {Str("m"), Str("i")}

\* C27: every item that createMany returns carries its actors, the ones
\* linked to that movie in the store at the end of the call.
C27_CreateManyItemsCarryActors ==
  \A batch \in BulkBatches :
    LET r == createMany(Store, batch)
        itemList == createManyItems(Store, batch)
    IN r.error = "none"
         => \A i \in 1..Len(itemList) :
              /\ "actors" \in DOMAIN itemList[i]
              /\ {a.name : a \in itemList[i].actors} = ActorNamesOf(r.db, itemList[i].id)

\* the first defect of a block in the order line count, missing field names,
\* release year, format, stars, title, or "none"
FirstDefect(block) ==
  IF Len(block) # 4 THEN "lineCount"
  ELSE IF MissingNames(block) # {} THEN "missingFields"
  ELSE LET textBlock == parseMovieBlock(block).parsedBlock
       IN IF ~YearInRange(textBlock.releaseYear) THEN "releaseYear"
          ELSE IF textBlock.format \notin {Str("VHS"), Str("DVD"), Str("Blu-Ray"),
                                           Str("Digital")}
               THEN "format"
          ELSE IF \/ StarsNames(textBlock.stars) = {}
                  \/ \E name \in StarsNames(textBlock.stars) :
                       length(name) > 255 \/ \E i \in 1..Len(name) : ~IsNameAtom(name[i])
               THEN "stars"
          ELSE IF length(textBlock.title) = 0 \/ length(textBlock.title) > 255
               THEN "title"
          ELSE "none"

\* the error raised for a defect
ErrorOfDefect(defect) ==
  CASE defect = "none" -> "none"
    [] defect = "missingFields" -> "moviesMissingRequiredFields"
    [] defect = "releaseYear" -> "invalidInputData"
    [] OTHER -> "invalidFileContent"

\* C28: a file without a defective block raises no error; otherwise the
\* error is the one of the first defective block in the order of the file,
\* raised after the blocks before it were accepted, and within that block it
\* is the error of the first failing check in the order line count, missing
\* field names, release year, format, stars, title.
C28_FirstInvalidBlockFirstCheck ==
  last.op = "parsed"
    => LET defective == {i \in 1..Len(last.input) : FirstDefect(last.input[i]) # "none"}
       IN IF defective = {}
          THEN last.error = "none" /\ last.before = Len(last.input)
          ELSE LET first == CHOOSE i \in defective : \A j \in defective : i <= j
               IN /\ last.error = ErrorOfDefect(FirstDefect(last.input[first]))
                  /\ last.before = first - 1
                  /\ throwingCheck(last.input[first]) = FirstDefect(last.input[first])

\* a file of a sound block and a block with a year out of range and a format
\* not in the list was turned down with invalidInputData after one block
C28_Witness ==
  /\ last.op = "parsed"
  /\ Len(last.input) = 2
  /\ last.input[1] = blockM
  /\ last.input[2] = Block(titleA, Str("1894"), Str("dvd"), starsM)
  /\ last.error = "invalidInputData"
  /\ last.before = 1

\* C29: when create, update, createMany and delete run one at a time, no two
\* actor rows ever have the same name, and no operation removes an actor
\* row that was stored before it.
C29_OneRowPerActorName ==
  /\ [](\A a, b \in actors : a.name = b.name => a = b)
  /\ [][actors \subseteq actors']_vars

\* a bulk create of two records that both name actor M has stored two movies
\* and one row for each of the two names, and both movies are linked to M
C29_Witness ==
  /\ last.op = "createMany"
  /\ last.error = "none"
  /\ Cardinality(movies) = 2
  /\ {a.name : a \in actors} = {nameM, nameI}
  /\ Cardinality(actors) = 2
  /\ \A m \in movies : nameM \in ActorNamesOf(Store, m.id)

\* no two persisted movies have the same title, year and format and the same
\* trimmed, lowercased actor names
NoDuplicateMovies ==
  \A m, n \in movies :
    (/\ m.title = n.title
     /\ m.year = n.year
     /\ m.format = n.format
     /\ NameSetOfMovie(Store, m) = NameSetOfMovie(Store, n))
      => m = n

\* C30: an update of a store without duplicate movies leaves a store without
\* duplicate movies.
C30_UpdateKeepsMoviesDistinct ==
  [][(NoDuplicateMovies /\ last'.op = "update") => NoDuplicateMovies']_vars

============================================================================
